---- MODULE Spec2Model ----
(***************************************************************************)
(* Verification model of the serve/poll orchestration core of the Tempest  *)
(* CLI: the poll loop (cmd/serve.go startPolling), the health check loop   *)
(* (startHealthCheck / performHealthCheck) and the runner start-up with    *)
(* its reachability probe (internal/runner/runner.go createRunner).        *)
(***************************************************************************)
EXTENDS Integers, Sequences, FiniteSets, TLC

(***************************************************************************)
(* Bounds of the model.                                                    *)
(***************************************************************************)
\* Unscripted Fetch calls one poll loop issues in a checked run.
MaxFetch == 3

\* Versions listed under one app ID of the configuration.
MaxVersions == 2

\* Resource definitions in the App's catalogue.
MaxTypes == 3

\* Ticks the health ticker fires in a checked run.
MaxTicks == 4

\* Characters of a word handed to pluralize.
MaxWord == 2

\* The largest count handed to pluralize and FormatShowingSummary.
MaxCount == 10

\* Environment variables of one task.
MaxEnv == 2

\* Links of one Resource.
MaxLinks == 2

\* Resources in one ListResources response.
MaxResources == 2

(***************************************************************************)
(* Program constants.                                                      *)
(***************************************************************************)
\* const pollingInterval = 5 * time.Second, in seconds.
pollingInterval == 5

\* backoff.WithMaxRetries(..., 5): the retries of the reachability probe.
MaxRetries == 5

\* backoff.NewConstantBackOff(time.Second), in seconds.
BackOffInterval == 1

VARIABLES
  \* ---- poll loop (startPolling) ----
  pc,        \* position of the poll loop goroutine
  calls,     \* calls the poll loop has issued and not yet got back
  nextTask,  \* the response of the last successful Fetch (nextTask in the code)
  request,   \* the App request built in the running iteration
  fetches,   \* number of Fetch calls issued so far
  steps,     \* the steps taken for the current fetch, in order
  rpcLog,    \* every App RPC invocation: [task, rpc]
  reportLog, \* every report submission attempt: [task, status, message]
  err,    \* err of the App RPC of the current iteration ("" while nil)
  outcome,   \* how the last finished iteration ended
  sleeps,    \* number of completed time.Sleep(pollingInterval)
  clock,     \* seconds the loop has spent sleeping
  token,     \* the bearer token the control-plane client was built with
  script,    \* fetch responses fixed in advance (empty: any response)
  \* ---- start-up (runner.StartApps, createRunner) ----
  spc,       \* position of StartApps
  buildDir,  \* what os.Stat finds at the build directory
  cfg,       \* cfg.Apps: app ID -> list of versions
  proc,      \* the "go run ." subprocess
  port,      \* the first line of the subprocess's stdout
  todo,      \* the (app ID, version) entries the range loops still have to visit
  runners,   \* the runners slice
  attempts,  \* Describe calls made by the running createRunner
  numTries,  \* retry counter of backoff.WithMaxRetries
  waits,     \* the waits of the running createRunner, in seconds
  lastProbe, \* how the last Describe of createRunner ended
  ret,       \* what StartApps returned
  cancel,    \* the cancel function StartApps returned: none yet, nil, or kill
  \* ---- health check loop (startHealthCheck, performHealthCheck) ----
  hpc,       \* position of the health check goroutine
  catalogue, \* the resource definitions the App describes itself with
  des,       \* the response of the Describe made at start-up (nil on error)
  hidx,      \* index of the type the running pass is at
  reports,   \* the reports slice of the running pass
  healthLog, \* the types HealthCheck was invoked for in the running pass
  answers,   \* the statuses HealthCheck answered in the running pass
  postLog,   \* the HealthReports of every submission of the running pass
  passErr,   \* what the last finished pass returned
  passes,    \* per pass started: the number of ticks received before it
  tickerOn,  \* whether time.NewTicker has been called
  ticks,     \* ticks the ticker has fired
  tickChan,  \* ticks waiting in ticker.C (a channel of capacity 1)
  received,  \* ticks the loop has received from ticker.C
  \* ---- the serve command (serveRunE) ----
  serve,     \* position of serveRunE
  cancelCalls, \* calls of the cancel function StartApps returned
  \* ---- translation and formatting functions applied to one input ----
  fpc,       \* position of the call: idle, call, return, back
  fn,        \* the function called
  arg,       \* its input
  out,       \* its result
  back       \* the result of translating out back

pollVars == <<pc, calls, nextTask, request, fetches, steps, rpcLog, reportLog, err,
              outcome, sleeps, clock, token, script>>

startVars == <<spc, buildDir, cfg, proc, port, todo, runners, attempts, numTries, waits,
               lastProbe, ret, cancel>>

healthVars == <<hpc, catalogue, des, hidx, reports, healthLog, answers, postLog, passErr, passes,
                tickerOn, ticks, tickChan, received>>

serveVars == <<serve, cancelCalls>>

fnVars == <<fpc, fn, arg, out, back>>

vars == <<pollVars, startVars, healthVars, serveVars, fnVars>>

(***************************************************************************)
(* Values of the control-plane and App vocabulary.                         *)
(***************************************************************************)
\* appapi operation strings; "list" stands for any value outside the four.
Operations == {"create", "update", "delete", "read", "list"}

\* v.Input: absent (nil pointer), not convertible by structpb.NewStruct, or fine.
Inputs == {"nil", "bad", "ok"}

\* Error texts an App RPC can fail with.
AppErrors == {"app failed", "deadline exceeded"}

\* HTTP status codes of a fetch response other than 200.
NonOKStatus == {204, 401, 500, 404}

NoTask == [kind |-> "none"]

\* No App request has been built in the running iteration.
NoRequest == [rpc |-> "none", Operation |-> "none"]

\* The task bodies a 200 response can carry once its discriminator resolved.
Tasks ==
  [kind : {"operation"}, operation : Operations, input : Inputs, hasType : BOOLEAN]
    \cup [kind : {"action"}]
    \cup [kind : {"list"}, hasType : BOOLEAN]

\* A 200 response body: a task, or one whose discriminator does not resolve.
Bodies == Tasks \cup {[kind |-> "malformed"]}

\* The responses a Fetch (PostAppsOperationsNextWithResponse) can come back with.
Responses ==
  [error : {TRUE}]
    \cup [error : {FALSE}, code : NonOKStatus]
    \cup [error : {FALSE}, code : {200}, body : Bodies]

\* A task the loop can hand to the App: every field the dispatch dereferences is
\* present, the input converts and the operation is one of the four.
Dispatchable(b) ==
  \/ b.kind = "operation" /\ b.input = "ok" /\ b.hasType
       /\ b.operation \in {"create", "update", "delete", "read"}
  \/ b.kind = "list" /\ b.hasType

\* A task of a known kind with the fields of its kind present and convertible.
WellFormed(b) == Dispatchable(b) \/ b.kind = "action"

\* Whether response r is of the class a script entry names.
Matches(entry, r) ==
  CASE entry = "transport-error" -> r.error
    [] entry = "204"             -> ~r.error /\ r.code = 204
    [] entry = "malformed"       -> ~r.error /\ r.code = 200 /\ r.body.kind = "malformed"
    [] entry = "valid"           -> ~r.error /\ r.code = 200 /\ WellFormed(r.body)
    [] OTHER                     -> FALSE

\* The response to the current Fetch is free unless the script fixes it.
Scripted(r) == IF fetches > Len(script) THEN TRUE ELSE Matches(script[fetches], r)

(***************************************************************************)
(* Poll loop: startPolling.                                                *)
(***************************************************************************)
\* The ways an iteration ends.
\* time.Sleep(pollingInterval); continue (or the end of a sleeping switch arm).
EndSleep(o) == pc' = "sleeping" /\ outcome' = o
\* Falls out of the switch: the for loop starts over at once.
EndLoop(o) == pc' = "loop" /\ outcome' = o
\* A nil pointer dereference: the goroutine panics and the process dies.
Panic == pc' = "crashed" /\ outcome' = "panic"

\* A translation whose default arm yields READ.
ResourceOperation_DefaultRead(op) ==
  CASE op = "create" -> "RESOURCE_OPERATION_CREATE"
    [] op = "update" -> "RESOURCE_OPERATION_UPDATE"
    [] op = "delete" -> "RESOURCE_OPERATION_DELETE"
    [] OTHER         -> "RESOURCE_OPERATION_READ"

\* case appapi.Create/Update/Delete/Read of the operation switch; default: unsupported.
ResourceOperation(op) ==
  CASE op = "create" -> "RESOURCE_OPERATION_CREATE"
    [] op = "update" -> "RESOURCE_OPERATION_UPDATE"
    [] op = "delete" -> "RESOURCE_OPERATION_DELETE"
    [] op = "read"   -> "RESOURCE_OPERATION_READ"
    [] OTHER         -> "unsupported"

\* Mutant: the error outcome is posted with the success status.
postTempestError_StatusOk(taskID, appErr) ==
  [task |-> taskID, status |-> "ok", message |-> appErr]

\* The body postTempestError submits: status error, the error text as message.
postTempestError(taskID, appErr) ==
  [task |-> taskID, status |-> "error", message |-> appErr]

\* The body of the success report: status ok and the response, no message.
okReport(taskID, responseType) ==
  [task |-> taskID, status |-> "ok", message |-> responseType]

\* What a non-200 switch arm (204, 500, 401, default) does to the token: nothing.
TokenAfterStatus(code) == token

\* The number of Fetch calls of a checked run: a scripted run issues one Fetch
\* beyond its script.
FetchLimit == IF script = <<>> THEN MaxFetch ELSE Len(script) + 1

\* Mutant: the next Fetch is issued while the App call is still in flight.
Fetch_Pipelined ==
  /\ pc \in {"loop", "executing"}
  /\ fetches < FetchLimit
  /\ pc' = "fetching"
  /\ calls' = calls \cup {"fetch"}
  /\ fetches' = fetches + 1
  /\ steps' = <<"Fetch">>
  /\ nextTask' = NoTask
  /\ request' = NoRequest
  /\ err' = ""
  /\ UNCHANGED <<rpcLog, reportLog, outcome, sleeps, clock, token, script>>
  /\ UNCHANGED <<startVars, healthVars, serveVars, fnVars>>

\* logger.Debug("polling for next task"); PostAppsOperationsNextWithResponse(...)
Fetch ==
  /\ pc = "loop"
  /\ fetches < FetchLimit
  /\ pc' = "fetching"
  /\ calls' = calls \cup {"fetch"}
  /\ fetches' = fetches + 1
  /\ steps' = <<"Fetch">>
  /\ nextTask' = NoTask
  /\ request' = NoRequest
  /\ err' = ""
  /\ UNCHANGED <<rpcLog, reportLog, outcome, sleeps, clock, token, script>>
  /\ UNCHANGED <<startVars, healthVars, serveVars, fnVars>>

\* Mutant: a transport error retries at once, without the sleep.
FetchError_NoSleep ==
  /\ pc = "fetching"
  /\ Scripted([error |-> TRUE])
  /\ calls' = calls \ {"fetch"}
  /\ EndLoop("transport_error")
  /\ UNCHANGED <<err, nextTask, request, fetches, steps, rpcLog, reportLog, sleeps, clock, token,
                 script>>
  /\ UNCHANGED <<startVars, healthVars, serveVars, fnVars>>

\* if err != nil { log; time.Sleep(pollingInterval); continue }
FetchError ==
  /\ pc = "fetching"
  /\ Scripted([error |-> TRUE])
  /\ calls' = calls \ {"fetch"}
  /\ EndSleep("transport_error")
  /\ UNCHANGED <<err, nextTask, request, fetches, steps, rpcLog, reportLog, sleeps, clock, token, script>>
  /\ UNCHANGED <<startVars, healthVars, serveVars, fnVars>>

\* Mutant: the default arm of the status switch forgets to sleep.
FetchStatus_DefaultNoSleep ==
  \E code \in NonOKStatus :
    /\ pc = "fetching"
    /\ Scripted([error |-> FALSE, code |-> code])
    /\ calls' = calls \ {"fetch"}
    /\ token' = TokenAfterStatus(code)
    /\ IF code \in {204, 500, 401} THEN EndSleep("non200") ELSE EndLoop("non200")
    /\ UNCHANGED <<err, nextTask, request, fetches, steps, rpcLog, reportLog, sleeps, clock,
                   script>>
  /\ UNCHANGED <<startVars, healthVars, serveVars, fnVars>>

\* case http.StatusNoContent, StatusInternalServerError, StatusUnauthorized, default
FetchStatus ==
  \E code \in NonOKStatus :
    /\ pc = "fetching"
    /\ Scripted([error |-> FALSE, code |-> code])
    /\ calls' = calls \ {"fetch"}
    /\ token' = TokenAfterStatus(code)
    /\ EndSleep("non200")
    /\ UNCHANGED <<err, nextTask, request, fetches, steps, rpcLog, reportLog, sleeps, clock, script>>
  /\ UNCHANGED <<startVars, healthVars, serveVars, fnVars>>

\* case http.StatusOK: the response carries a task body
FetchOK ==
  \E b \in Bodies :
    /\ pc = "fetching"
    /\ Scripted([error |-> FALSE, code |-> 200, body |-> b])
    /\ calls' = calls \ {"fetch"}
    /\ nextTask' = [taskId |-> fetches, body |-> b]
    /\ UNCHANGED request
    /\ pc' = "decode"
    /\ UNCHANGED <<err, fetches, steps, rpcLog, reportLog, outcome, sleeps, clock, token, script>>
  /\ UNCHANGED <<startVars, healthVars, serveVars, fnVars>>

\* val, err := nextTask.JSON200.Task.ValueByDiscriminator()
Decode ==
  /\ pc = "decode"
  /\ steps' = Append(steps, "Decode")
  /\ IF nextTask.body.kind = "malformed"
       THEN EndSleep("decode_failure")
       ELSE pc' = "dispatch" /\ UNCHANGED outcome
  /\ UNCHANGED <<err, calls, nextTask, request, fetches, rpcLog, reportLog, sleeps, clock, token, script>>
  /\ UNCHANGED <<startVars, healthVars, serveVars, fnVars>>

\* Mutant: an unsupported operation is reported upstream as an error.
DispatchOperation_ReportUnsupported ==
  /\ pc = "dispatch"
  /\ nextTask.body.kind = "operation"
  /\ LET v == nextTask.body
         op == ResourceOperation(v.operation)
     IN  IF v.input = "nil" THEN
           Panic /\ UNCHANGED <<calls, steps, rpcLog, request, reportLog>>
         ELSE IF v.input = "bad" THEN
           EndSleep("prepare_failure") /\ UNCHANGED <<calls, steps, rpcLog, request, reportLog>>
         ELSE IF op = "unsupported" THEN
           /\ calls' = calls \cup {"report"}
           /\ steps' = Append(steps, "Report")
           /\ reportLog' = Append(reportLog,
                                  postTempestError(nextTask.taskId, "unsupported operation"))
           /\ pc' = "reportingError"
           /\ UNCHANGED <<outcome, rpcLog, request>>
         ELSE IF ~v.hasType THEN
           Panic /\ UNCHANGED <<calls, steps, rpcLog, request, reportLog>>
         ELSE
           /\ calls' = calls \cup {"execute"}
           /\ steps' = Append(steps, "Dispatch")
           /\ rpcLog' = Append(rpcLog, [task |-> nextTask.taskId,
                                        rpc |-> "ExecuteResourceOperation"])
           /\ request' = [rpc |-> "ExecuteResourceOperation", Operation |-> op]
           /\ pc' = "executing"
           /\ UNCHANGED <<outcome, reportLog>>
  /\ UNCHANGED <<err, nextTask, fetches, sleeps, clock, token, script>>
  /\ UNCHANGED <<startVars, healthVars, serveVars, fnVars>>

\* case appapi.ExecuteResourceOperationRequest: prepare and call the App
DispatchOperation ==
  /\ pc = "dispatch"
  /\ nextTask.body.kind = "operation"
  /\ LET v == nextTask.body
         op == ResourceOperation(v.operation)
     IN  IF v.input = "nil" THEN
           \* structpb.NewStruct(*v.Input) dereferences a nil pointer
           Panic /\ UNCHANGED <<calls, steps, rpcLog, request>>
         ELSE IF v.input = "bad" THEN
           EndSleep("prepare_failure") /\ UNCHANGED <<calls, steps, rpcLog, request>>
         ELSE IF op = "unsupported" THEN
           EndSleep("prepare_failure") /\ UNCHANGED <<calls, steps, rpcLog, request>>
         ELSE IF ~v.hasType THEN
           \* Type: *v.Resource.Type dereferences a nil pointer
           Panic /\ UNCHANGED <<calls, steps, rpcLog, request>>
         ELSE
           /\ calls' = calls \cup {"execute"}
           /\ steps' = Append(steps, "Dispatch")
           /\ rpcLog' = Append(rpcLog, [task |-> nextTask.taskId,
                                        rpc |-> "ExecuteResourceOperation"])
           /\ request' = [rpc |-> "ExecuteResourceOperation", Operation |-> op]
           /\ pc' = "executing"
           /\ UNCHANGED outcome
  /\ UNCHANGED <<err, nextTask, fetches, reportLog, sleeps, clock, token, script>>
  /\ UNCHANGED <<startVars, healthVars, serveVars, fnVars>>

\* Mutant: the unimplemented kind is reported upstream as an error.
DispatchAction_ReportUnsupported ==
  /\ pc = "dispatch"
  /\ nextTask.body.kind = "action"
  /\ calls' = calls \cup {"report"}
  /\ steps' = Append(steps, "Report")
  /\ reportLog' = Append(reportLog, postTempestError(nextTask.taskId, "unsupported"))
  /\ pc' = "reportingError"
  /\ UNCHANGED <<err, nextTask, request, fetches, rpcLog, outcome, sleeps, clock, token, script>>
  /\ UNCHANGED <<startVars, healthVars, serveVars, fnVars>>

\* case appapi.ExecuteResourceActionRequest: // TODO
DispatchAction ==
  /\ pc = "dispatch"
  /\ nextTask.body.kind = "action"
  /\ EndLoop("unimplemented")
  /\ UNCHANGED <<err, calls, nextTask, request, fetches, steps, rpcLog, reportLog, sleeps, clock,
                 token, script>>
  /\ UNCHANGED <<startVars, healthVars, serveVars, fnVars>>

\* case appapi.ListResourcesRequest: call the App
DispatchList ==
  /\ pc = "dispatch"
  /\ nextTask.body.kind = "list"
  /\ IF ~nextTask.body.hasType THEN
       \* Type: *v.Resource.Type dereferences a nil pointer
       Panic /\ UNCHANGED <<calls, steps, rpcLog, request>>
     ELSE
       /\ calls' = calls \cup {"list"}
       /\ steps' = Append(steps, "Dispatch")
       /\ rpcLog' = Append(rpcLog, [task |-> nextTask.taskId,
                                    rpc |-> "ListResources"])
       /\ request' = [rpc |-> "ListResources", Operation |-> "none"]
       /\ pc' = "listing"
       /\ UNCHANGED outcome
  /\ UNCHANGED <<err, nextTask, fetches, reportLog, sleeps, clock, token, script>>
  /\ UNCHANGED <<startVars, healthVars, serveVars, fnVars>>

\* The App RPC in flight and the response type of its success report.
RpcOf(p) == IF p = "executing" THEN "execute" ELSE "list"
ResponseTypeOf(p) ==
  IF p = "executing" THEN "execute_resource_operation" ELSE "list_resources"

\* if err != nil { postTempestError(tempestClient, TaskId, err) ...
RpcError ==
  \E e \in AppErrors :
    /\ pc \in {"executing", "listing"}
    /\ calls' = (calls \ {RpcOf(pc)}) \cup {"report"}
    /\ steps' = Append(steps, "Report")
    /\ err' = e
    /\ reportLog' = Append(reportLog, postTempestError(nextTask.taskId, e))
    /\ pc' = "reportingError"
    /\ UNCHANGED <<nextTask, request, fetches, rpcLog, outcome, sleeps, clock, token, script>>
  /\ UNCHANGED <<startVars, healthVars, serveVars, fnVars>>

\* The RPC succeeded: build the response, Merge...Response, PostAppsOperationsReport.
RpcOK ==
  \E merged \in BOOLEAN :
    /\ pc \in {"executing", "listing"}
    /\ IF ~merged THEN
         \* logger.Error("prepare app response"); sleep; continue
         /\ calls' = calls \ {RpcOf(pc)}
         /\ EndSleep("prepare_failure")
         /\ UNCHANGED <<steps, reportLog>>
       ELSE
         /\ calls' = (calls \ {RpcOf(pc)}) \cup {"report"}
         /\ steps' = Append(steps, "Report")
         /\ reportLog' = Append(reportLog, okReport(nextTask.taskId, ResponseTypeOf(pc)))
         /\ pc' = "reportingOk"
         /\ UNCHANGED outcome
    /\ UNCHANGED <<err, nextTask, request, fetches, rpcLog, sleeps, clock, token, script>>
  /\ UNCHANGED <<startVars, healthVars, serveVars, fnVars>>

\* ... tempestErr logged or not; logger.Error("execute ..."); sleep; continue }
ErrorReportReturn ==
  \E delivered \in BOOLEAN :
    /\ pc = "reportingError"
    /\ calls' = calls \ {"report"}
    /\ EndSleep("rpc_error")
    /\ UNCHANGED <<err, nextTask, request, fetches, steps, rpcLog, reportLog, sleeps, clock, token,
                   script>>
  /\ UNCHANGED <<startVars, healthVars, serveVars, fnVars>>

\* Mutant: a failed submission of the success report is submitted again.
OkReportReturn_Retry ==
  \E delivered \in BOOLEAN :
    /\ pc = "reportingOk"
    /\ IF delivered
         THEN calls' = calls \ {"report"} /\ EndLoop("report_ok") /\ UNCHANGED reportLog
         ELSE /\ reportLog' = Append(reportLog, reportLog[Len(reportLog)])
              /\ UNCHANGED <<calls, pc, outcome>>
    /\ UNCHANGED <<err, nextTask, request, fetches, steps, rpcLog, sleeps, clock, token, script>>
  /\ UNCHANGED <<startVars, healthVars, serveVars, fnVars>>

\* Mutant: the loop sleeps after a delivered success report as well.
OkReportReturn_AlwaysSleep ==
  \E delivered \in BOOLEAN :
    /\ pc = "reportingOk"
    /\ calls' = calls \ {"report"}
    /\ IF delivered THEN EndSleep("report_ok") ELSE EndSleep("report_error")
    /\ UNCHANGED <<err, nextTask, request, fetches, steps, rpcLog, reportLog, sleeps, clock, token,
                   script>>
  /\ UNCHANGED <<startVars, healthVars, serveVars, fnVars>>

\* _, err = PostAppsOperationsReport(...): on error log, sleep, continue
OkReportReturn ==
  \E delivered \in BOOLEAN :
    /\ pc = "reportingOk"
    /\ calls' = calls \ {"report"}
    /\ IF delivered THEN EndLoop("report_ok") ELSE EndSleep("report_error")
    /\ UNCHANGED <<err, nextTask, request, fetches, steps, rpcLog, reportLog, sleeps, clock, token,
                   script>>
  /\ UNCHANGED <<startVars, healthVars, serveVars, fnVars>>

\* time.Sleep(pollingInterval) returns and the loop starts over.
Sleep ==
  /\ pc = "sleeping"
  /\ pc' = "loop"
  /\ sleeps' = sleeps + 1
  /\ clock' = clock + pollingInterval
  /\ UNCHANGED <<err, calls, nextTask, request, fetches, steps, rpcLog, reportLog, outcome, token,
                 script>>
  /\ UNCHANGED <<startVars, healthVars, serveVars, fnVars>>

startPolling ==
  \/ Fetch
  \/ FetchError
  \/ FetchStatus
  \/ FetchOK
  \/ Decode
  \/ DispatchOperation
  \/ DispatchAction
  \/ DispatchList
  \/ RpcError
  \/ RpcOK
  \/ ErrorReportReturn
  \/ OkReportReturn
  \/ Sleep

\* The poll loop right after go startPolling(runner, tempestClient).
InitPoll ==
  /\ pc = "loop"
  /\ calls = {}
  /\ nextTask = NoTask
  /\ request = NoRequest
  /\ fetches = 0
  /\ steps = <<>>
  /\ rpcLog = <<>>
  /\ reportLog = <<>>
  /\ outcome = "none"
  /\ sleeps = 0
  /\ clock = 0
  /\ err = ""
  /\ token = "token"

(***************************************************************************)
(* Start-up: runner.StartApps and createRunner.                            *)
(***************************************************************************)
AppIDs == {"a", "b"}
Versions == {"v1", "v2"}

\* First lines the subprocess can print; "closed": stdout ends with no line.
FirstLines == {"closed", "8080", "9090", "abc"}

\* An endpoint that can be reached whatever the line was.
ValidPort_Any(p) == TRUE

\* Whether the line scanner.Text() returned makes a URL port Describe can reach.
ValidPort(p) == p \in {"8080", "9090"}

SeqsUpTo(S, n) == UNION {[1..k -> S] : k \in 0..n}

\* The Apps mappings of a tempest.yaml.
Configs == [AppIDs -> SeqsUpTo(Versions, MaxVersions)]

\* for appID, versions := range cfg.Apps { for _, version := range versions {
\* the entries of c in the order the loops visit them when the map yields ids.
RECURSIVE Flatten(_, _)
Flatten(c, ids) ==
  IF ids = <<>> THEN <<>>
  ELSE [i \in 1..Len(c[Head(ids)]) |-> [AppID |-> Head(ids), Version |-> c[Head(ids)][i]]]
         \o Flatten(c, Tail(ids))

\* The orders in which a Go map range can yield the app IDs.
IdOrders ==
  {o \in [1..Cardinality(AppIDs) -> AppIDs] : \A i, j \in DOMAIN o : i # j => o[i] # o[j]}

\* backoff.Stop
Stop == -1

\* Mutant: the constant backoff grows exponentially.
ConstantBackOff_Exponential(n) == 2 ^ n

\* ConstantBackOff.NextBackOff: the same interval whatever the retry number.
ConstantBackOff(n) == BackOffInterval

\* Mutant: the retry wrapper allows no retry at all.
NextBackOff_NoRetry(n) == Stop

\* backOffTries.NextBackOff with numTries = n: Stop once maxTries <= numTries,
\* else the delegate's interval (and numTries is incremented).
NextBackOff(n) == IF MaxRetries <= n THEN Stop ELSE ConstantBackOff(n)

\* A Runner whose path leaves the version out.
Runner_PathWithoutVersion(e, p) ==
  [AppID |-> e.AppID,
   Version |-> e.Version,
   Path |-> e.AppID,
   Client |-> "http://localhost:" \o p \o "/" \o e.AppID]

\* A Runner whose client is addressed at a fixed port.
Runner_FixedPort(e, p) ==
  [AppID |-> e.AppID,
   Version |-> e.Version,
   Path |-> e.AppID \o "-" \o e.Version,
   Client |-> "http://localhost:8080/" \o e.AppID \o "-" \o e.Version]

\* The Runner createRunner returns for an entry on a port.
Runner(e, p) ==
  [AppID |-> e.AppID,
   Version |-> e.Version,
   Path |-> e.AppID \o "-" \o e.Version,
   Client |-> "http://localhost:" \o p \o "/" \o e.AppID \o "-" \o e.Version]

\* An error return that hands back the Runners created so far.
Fail_KeepRunners(why) ==
  spc' = "failed" /\ ret' = why /\ runners' = runners /\ cancel' = "nil"

\* Mutant: a failed start-up hands the kill function back with the error.
Fail_ReturnsCancel(why) ==
  spc' = "failed" /\ ret' = why /\ runners' = <<>> /\ cancel' = "kill"

\* return nil, nil, err
Fail(why) == spc' = "failed" /\ ret' = why /\ runners' = <<>> /\ cancel' = "nil"

\* info, err := os.Stat(absBuildDir); info.IsDir()
Stat ==
  /\ spc = "stat"
  /\ IF buildDir = "missing" THEN Fail("stat error")
     ELSE IF buildDir = "file" THEN Fail("invalid build directory")
     ELSE spc' = "start" /\ UNCHANGED <<ret, runners, cancel>>
  /\ UNCHANGED <<buildDir, cfg, proc, port, todo, attempts, numTries, waits, lastProbe>>
  /\ UNCHANGED <<pollVars, healthVars, serveVars, fnVars>>

\* cmd.StdoutPipe(); cmd.StderrPipe(); err = cmd.Start()
Start ==
  \E started \in BOOLEAN :
    /\ spc = "start"
    /\ IF started
         THEN proc' = "running" /\ spc' = "scan" /\ UNCHANGED <<ret, runners, cancel>>
         ELSE Fail("start error") /\ UNCHANGED proc
    /\ UNCHANGED <<buildDir, cfg, port, todo, attempts, numTries, waits, lastProbe>>
    /\ UNCHANGED <<pollVars, healthVars, serveVars, fnVars>>

\* if !scanner.Scan() { return nil, nil, err }; port := scanner.Text()
Scan ==
  \E line \in FirstLines, ids \in IdOrders :
    /\ spc = "scan"
    /\ IF line = "closed"
         THEN Fail("scan error") /\ UNCHANGED <<port, todo>>
         ELSE /\ port' = line
              /\ todo' = Flatten(cfg, ids)
              /\ spc' = "range"
              /\ UNCHANGED <<ret, runners, cancel>>
    /\ UNCHANGED <<buildDir, cfg, proc, attempts, numTries, waits, lastProbe>>
    /\ UNCHANGED <<pollVars, healthVars, serveVars, fnVars>>

\* The range loops: the next createRunner, or return runners, cancel, nil.
Range ==
  /\ spc = "range"
  /\ IF todo = <<>>
       THEN spc' = "returned" /\ ret' = "ok" /\ cancel' = "kill"
            /\ UNCHANGED <<attempts, numTries, waits, lastProbe>>
       ELSE \* backoff.Retry starts: b.Reset()
            /\ spc' = "describe"
            /\ attempts' = 0 /\ numTries' = 0 /\ waits' = <<>>
            /\ lastProbe' = "none"
            /\ UNCHANGED <<ret, cancel>>
  /\ UNCHANGED <<buildDir, cfg, proc, port, todo, runners>>
  /\ UNCHANGED <<pollVars, healthVars, serveVars, fnVars>>

\* One round of backoff.Retry in createRunner: client.Describe, then return the
\* Runner, give up (next == Stop) or start the timer for the next attempt.
Describe ==
  \E reachable \in BOOLEAN :
    /\ spc = "describe"
    /\ reachable => ValidPort(port)
    /\ attempts' = attempts + 1
    /\ IF reachable THEN
         /\ lastProbe' = "ok"
         /\ runners' = Append(runners, Runner(Head(todo), port))
         /\ todo' = Tail(todo)
         /\ spc' = "range"
         /\ UNCHANGED <<numTries, waits, ret, cancel>>
       ELSE IF NextBackOff(numTries) = Stop THEN
         /\ lastProbe' = "failed"
         /\ Fail("probe error")
         /\ UNCHANGED <<todo, numTries, waits>>
       ELSE
         /\ lastProbe' = "failed"
         /\ numTries' = numTries + 1
         /\ waits' = Append(waits, NextBackOff(numTries))
         /\ spc' = "backoff"
         /\ UNCHANGED <<todo, runners, ret, cancel>>
    /\ UNCHANGED <<buildDir, cfg, proc, port>>
    /\ UNCHANGED <<pollVars, healthVars, serveVars, fnVars>>

\* The timer of backoff.Retry fires: the operation is tried again.
BackOff ==
  /\ spc = "backoff"
  /\ spc' = "describe"
  /\ UNCHANGED <<buildDir, cfg, proc, port, todo, runners, attempts, numTries, waits,
                 lastProbe, ret, cancel>>
  /\ UNCHANGED <<pollVars, healthVars, serveVars, fnVars>>

StartApps ==
  \/ Stat
  \/ Start
  \/ Scan
  \/ Range
  \/ Describe
  \/ BackOff

\* StartApps is entered with a configuration and a build directory.
InitStart ==
  /\ spc = "stat"
  /\ buildDir \in {"missing", "file", "dir"}
  /\ cfg \in Configs
  /\ proc = "none"
  /\ port = ""
  /\ todo = <<>>
  /\ runners = <<>>
  /\ attempts = 0
  /\ numTries = 0
  /\ waits = <<>>
  /\ lastProbe = "none"
  /\ ret = "pending"
  /\ cancel = "none"

\* The start-up of a run in which it plays no part: one app, started.
StartDone ==
  /\ spc = "returned"
  /\ buildDir = "dir"
  /\ cfg = [id \in AppIDs |-> IF id = "a" THEN <<"v1">> ELSE <<>>]
  /\ proc = "running"
  /\ port = "8080"
  /\ todo = <<>>
  /\ runners = <<Runner([AppID |-> "a", Version |-> "v1"], "8080")>>
  /\ attempts = 1
  /\ numTries = 0
  /\ waits = <<>>
  /\ lastProbe = "ok"
  /\ ret = "ok"
  /\ cancel = "kill"

\* The poll loop of a run in which it has not been started.
PollIdle == InitPoll /\ script = <<>>

(***************************************************************************)
(* Health check loop: startHealthCheck and performHealthCheck.             *)
(***************************************************************************)
TypeNames == <<"t1", "t2", "t3", "t4">>

\* The catalogues an App can describe: up to MaxTypes resource definitions.
Catalogues ==
  UNION {{[i \in 1..k |-> [Type |-> TypeNames[i], HealthcheckSupported |-> f[i]]] :
            f \in [1..k -> BOOLEAN]} : k \in 0..MaxTypes}

\* appv1.HealthCheckStatus values; "OTHER" stands for a value outside the four.
HealthStatuses == {"UNSPECIFIED", "HEALTHY", "DEGRADED", "DISRUPTED", "OTHER"}

NilDescribe == [nil |-> TRUE, types |-> <<>>]

\* A translation whose default arm reports a healthy status.
appStatusToTempestStatus_DefaultHealthy(status) ==
  CASE status = "DEGRADED"  -> "degraded"
    [] status = "DISRUPTED" -> "disrupted"
    [] OTHER                -> "healthy"

appStatusToTempestStatus(status) ==
  CASE status = "HEALTHY"   -> "healthy"
    [] status = "DEGRADED"  -> "degraded"
    [] status = "DISRUPTED" -> "disrupted"
    [] OTHER                -> "unknown"

\* A pass that goes back to the type it failed on instead of returning.
EndPass_Retry(e) ==
  /\ passErr' = e
  /\ hpc' = "types"
  /\ tickerOn' = tickerOn

\* performHealthCheck returns: the error is logged by startHealthCheck; after
\* the immediate pass the ticker is created, then the loop waits on ticker.C.
EndPass(e) ==
  /\ passErr' = e
  /\ hpc' = "range"
  /\ tickerOn' = TRUE

\* A health check loop that replaces the client of its Runner after Describe.
HealthDescribe_Redial ==
  \E ok \in BOOLEAN :
    /\ hpc = "describe"
    /\ des' = IF ok THEN [nil |-> FALSE, types |-> catalogue] ELSE NilDescribe
    /\ hpc' = "perform"
    /\ runners' = [runners EXCEPT ![1].Client = "redialled"]
    /\ UNCHANGED <<catalogue, hidx, reports, healthLog, answers, postLog, passErr, passes,
                   tickerOn, ticks, tickChan, received>>
    /\ UNCHANGED <<spc, buildDir, cfg, proc, port, todo, attempts, numTries, waits,
                   lastProbe, ret, cancel>>
    /\ UNCHANGED <<pollVars, serveVars, fnVars>>

\* des, err := runner.Client.Describe(...); if err != nil { logger.Error(...) }
HealthDescribe ==
  \E ok \in BOOLEAN :
    /\ hpc = "describe"
    /\ des' = IF ok THEN [nil |-> FALSE, types |-> catalogue] ELSE NilDescribe
    /\ hpc' = "perform"
    /\ UNCHANGED <<catalogue, hidx, reports, healthLog, answers, postLog, passErr, passes,
                   tickerOn, ticks, tickChan, received>>
    /\ UNCHANGED <<pollVars, startVars, serveVars, fnVars>>

\* performHealthCheck(runner.Client, tempestClient, des.Msg.ResourceDefinitions, ...)
\* is called: var reports []appapi.AppHealthReportItem
PassStart ==
  /\ hpc = "perform"
  /\ IF des.nil THEN
       \* des.Msg dereferences the nil response of the failed Describe
       /\ hpc' = "crashed"
       /\ UNCHANGED <<hidx, reports, healthLog, answers, postLog, passes>>
     ELSE
       /\ hpc' = "types"
       /\ hidx' = 1
       /\ reports' = <<>>
       /\ healthLog' = <<>>
       /\ answers' = <<>>
       /\ postLog' = <<>>
       /\ passes' = Append(passes, received)
  /\ UNCHANGED <<catalogue, des, passErr, tickerOn, ticks, tickChan, received>>
  /\ UNCHANGED <<pollVars, startVars, serveVars, fnVars>>

\* A pass that ignores the HealthcheckSupported flag.
NextType_IgnoreFlag ==
  /\ hpc = "types"
  /\ IF hidx > Len(des.types) THEN
       EndPass("nil") /\ UNCHANGED <<hidx, healthLog>>
     ELSE
       /\ healthLog' = Append(healthLog, des.types[hidx].Type)
       /\ hpc' = "healthcheck"
       /\ UNCHANGED <<hidx, passErr, tickerOn>>
  /\ UNCHANGED <<answers, catalogue, des, reports, postLog, passes, ticks, tickChan, received>>
  /\ UNCHANGED <<pollVars, startVars, serveVars, fnVars>>

\* for _, t := range types { if !t.HealthcheckSupported { continue }
\*   res, err := client.HealthCheck(...)
NextType ==
  /\ hpc = "types"
  /\ IF hidx > Len(des.types) THEN
       \* return nil
       EndPass("nil") /\ UNCHANGED <<hidx, healthLog>>
     ELSE IF ~des.types[hidx].HealthcheckSupported THEN
       hidx' = hidx + 1 /\ UNCHANGED <<hpc, healthLog, passErr, tickerOn>>
     ELSE
       /\ healthLog' = Append(healthLog, des.types[hidx].Type)
       /\ hpc' = "healthcheck"
       /\ UNCHANGED <<hidx, passErr, tickerOn>>
  /\ UNCHANGED <<answers, catalogue, des, reports, postLog, passes, ticks, tickChan, received>>
  /\ UNCHANGED <<pollVars, startVars, serveVars, fnVars>>

\* The reports slice after the HealthCheck of type t answered status.
AppendReport(rs, t, status) ==
  IF status # "UNSPECIFIED"
    THEN Append(rs, [Type |-> t, Status |-> appStatusToTempestStatus(status)])
    ELSE rs

\* A pass that submits only the item of the type just processed.
HealthCheckReturn_PostNewOnly ==
  \E ok \in BOOLEAN, status \in HealthStatuses :
    /\ hpc = "healthcheck"
    /\ IF ~ok THEN
         EndPass("health check error") /\ UNCHANGED <<reports, postLog, answers>>
       ELSE
         /\ answers' = Append(answers, status)
         /\ reports' = AppendReport(reports, des.types[hidx].Type, status)
         /\ postLog' = Append(postLog, AppendReport(<<>>, des.types[hidx].Type, status))
         /\ hpc' = "posting"
         /\ UNCHANGED <<passErr, tickerOn>>
    /\ UNCHANGED <<catalogue, des, hidx, healthLog, passes, ticks, tickChan, received>>
    /\ UNCHANGED <<pollVars, startVars, serveVars, fnVars>>

\* HealthCheck returns: on error the pass returns it; else the report item is
\* appended (unless UNSPECIFIED) and PostAppsVersionsHealth is called.
HealthCheckReturn ==
  \E ok \in BOOLEAN, status \in HealthStatuses :
    /\ hpc = "healthcheck"
    /\ IF ~ok THEN
         EndPass("health check error") /\ UNCHANGED <<reports, postLog, answers>>
       ELSE
         /\ answers' = Append(answers, status)
         /\ reports' = AppendReport(reports, des.types[hidx].Type, status)
         /\ postLog' = Append(postLog, reports')
         /\ hpc' = "posting"
         /\ UNCHANGED <<passErr, tickerOn>>
    /\ UNCHANGED <<catalogue, des, hidx, healthLog, passes, ticks, tickChan, received>>
    /\ UNCHANGED <<pollVars, startVars, serveVars, fnVars>>

\* PostAppsVersionsHealth returns: on error the pass returns it, else next type.
PostHealthReturn ==
  \E ok \in BOOLEAN :
    /\ hpc = "posting"
    /\ IF ok
         THEN hidx' = hidx + 1 /\ hpc' = "types" /\ UNCHANGED <<passErr, tickerOn>>
         ELSE EndPass("post health reports error") /\ UNCHANGED hidx
    /\ UNCHANGED <<catalogue, des, reports, healthLog, answers, postLog, passes, ticks, tickChan,
                   received>>
    /\ UNCHANGED <<pollVars, startVars, serveVars, fnVars>>

\* The runtime's ticker fires: the tick is dropped when ticker.C is full.
Tick ==
  /\ tickerOn
  /\ ticks < MaxTicks
  /\ ticks' = ticks + 1
  /\ tickChan' = IF tickChan = 0 THEN 1 ELSE tickChan
  /\ UNCHANGED <<hpc, catalogue, des, hidx, reports, healthLog, answers, postLog, passErr, passes,
                 tickerOn, received>>
  /\ UNCHANGED <<pollVars, startVars, serveVars, fnVars>>

\* for range ticker.C {   -- the range clause receives a tick
RangeTicker ==
  /\ hpc = "range"
  /\ tickChan > 0
  /\ tickChan' = tickChan - 1
  /\ received' = received + 1
  /\ hpc' = "receive"
  /\ UNCHANGED <<catalogue, des, hidx, reports, healthLog, answers, postLog, passErr, passes,
                 tickerOn, ticks>>
  /\ UNCHANGED <<pollVars, startVars, serveVars, fnVars>>

\*   <-ticker.C           -- the loop body receives one more tick
ReceiveTick ==
  /\ hpc = "receive"
  /\ tickChan > 0
  /\ tickChan' = tickChan - 1
  /\ received' = received + 1
  /\ hpc' = "perform"
  /\ UNCHANGED <<catalogue, des, hidx, reports, healthLog, answers, postLog, passErr, passes,
                 tickerOn, ticks>>
  /\ UNCHANGED <<pollVars, startVars, serveVars, fnVars>>

performHealthCheck ==
  \/ PassStart
  \/ NextType
  \/ HealthCheckReturn
  \/ PostHealthReturn

startHealthCheck ==
  \/ HealthDescribe
  \/ performHealthCheck
  \/ Tick
  \/ RangeTicker
  \/ ReceiveTick

\* The health check loop right after go startHealthCheck(runner, ...).
InitHealth ==
  /\ hpc = "describe"
  /\ catalogue \in Catalogues
  /\ des = NilDescribe
  /\ hidx = 0
  /\ reports = <<>>
  /\ healthLog = <<>>
  /\ answers = <<>>
  /\ postLog = <<>>
  /\ passErr = "none"
  /\ passes = <<>>
  /\ tickerOn = FALSE
  /\ ticks = 0
  /\ tickChan = 0
  /\ received = 0

\* The health check loop of a run in which it has not been started.
HealthIdle == InitHealth /\ catalogue = <<>>

(***************************************************************************)
(* The serve command: serveRunE.                                           *)
(***************************************************************************)
\* serveRunE is calling StartApps; no deferred call is registered yet.
ServeStarting == serve = "start" /\ cancelCalls = 0

\* serveRunE has started the goroutines and waits on signalChan.
ServeWaiting == serve = "waiting" /\ cancelCalls = 0

\* The goroutines of the Runner are running.
Serving == serve = "waiting" /\ pc # "crashed" /\ hpc # "crashed" /\ runners # <<>>

\* The Runner both goroutines were started with.
LoopRunner == runners[1]

\* runners, cancel, err := runner.StartApps(...)
\* if err != nil { return fmt.Errorf("start local app: %w", err) }
\* defer cancel(); for _, runner := range runners { go ...; go ... }
\* The locals of createRunner are gone once StartApps has returned.
ServeStarted ==
  /\ serve = "start"
  /\ spc \in {"returned", "failed"}
  /\ serve' = IF spc = "returned" THEN "waiting" ELSE "failed"
  /\ attempts' = 0 /\ numTries' = 0 /\ waits' = <<>> /\ lastProbe' = "none"
  /\ UNCHANGED <<spc, buildDir, cfg, proc, port, todo, runners, ret, cancel, cancelCalls>>
  /\ UNCHANGED <<pollVars, healthVars, fnVars>>

\* A handler that returns without running the deferred cancel.
SigHup_NoCleanup ==
  /\ serve = "waiting"
  /\ serve' = "returned"
  /\ UNCHANGED cancelCalls
  /\ UNCHANGED <<pollVars, startVars, healthVars, fnVars>>

\* <-signalChan receives the SIGHUP; return nil runs the deferred cancel():
\* err = cmd.Process.Kill()
SigHup ==
  /\ serve = "waiting"
  /\ serve' = "returned"
  /\ cancelCalls' = cancelCalls + 1
  /\ proc' = "killed"
  /\ UNCHANGED <<spc, buildDir, cfg, port, todo, runners, attempts, numTries, waits,
                 lastProbe, ret, cancel>>
  /\ UNCHANGED <<pollVars, healthVars, fnVars>>

\* A signal serveRunE did not ask to be notified of (SIGINT, SIGTERM) ends the
\* process at once: no deferred call runs.
Terminated ==
  /\ serve \in {"start", "waiting"}
  /\ serve' = "dead"
  /\ UNCHANGED cancelCalls
  /\ UNCHANGED <<pollVars, startVars, healthVars, fnVars>>

\* A panic in one goroutine ends the process: no deferred call of serveRunE runs.
GoroutinePanic ==
  /\ serve = "waiting"
  /\ pc = "crashed" \/ hpc = "crashed"
  /\ serve' = "panicked"
  /\ UNCHANGED cancelCalls
  /\ UNCHANGED <<pollVars, startVars, healthVars, fnVars>>

serveRunE ==
  \/ serve = "start" /\ StartApps
  \/ ServeStarted
  \/ Serving /\ startPolling
  \/ Serving /\ startHealthCheck
  \/ SigHup
  \/ Terminated
  \/ GoroutinePanic

\* The configurations, fetch responses and catalogues of the serve runs explored:
\* no App or one App in two versions; a 204 and then any response; one resource
\* type with health checks.
ServeConfigs == {c \in Configs : c["b"] = <<>> /\ c["a"] \in {<<>>, <<"v1", "v2">>}}
ServeScript == <<"204">>
ServeCatalogues == {c \in Catalogues : Len(c) = 1 /\ c[1].HealthcheckSupported}

\* The rest of the program while one function is followed.
OthersIdle == PollIdle /\ StartDone /\ HealthIdle /\ ServeWaiting

(***************************************************************************)
(* The translations of startPolling between the control plane's shapes     *)
(* (appapi) and the App's (appv1).                                         *)
(***************************************************************************)
\* env.Type of a task's variable: the five known kinds and two others.
EnvTypes == {"variable", "secret", "certificate", "private_key", "public_key", "token", ""}

\* v.EnvironmentVariables: a nil pointer or a list.
NilEnvironment == [nil |-> TRUE, vars |-> <<>>]
TaskEnvironments ==
  {NilEnvironment} \cup
  {[nil |-> FALSE, vars |-> e] :
     e \in SeqsUpTo([Name : {"K1", "K2"}, Value : {"", "x"}, Type : EnvTypes], MaxEnv)}

\* Mutant: the default arm takes an unknown kind for a plain variable.
EnvironmentVariableType_DefaultVar(t) ==
  CASE t = "variable"    -> "ENVIRONMENT_VARIABLE_TYPE_VAR"
    [] t = "secret"      -> "ENVIRONMENT_VARIABLE_TYPE_SECRET"
    [] t = "certificate" -> "ENVIRONMENT_VARIABLE_TYPE_CERTIFICATE"
    [] t = "private_key" -> "ENVIRONMENT_VARIABLE_TYPE_PRIVATE_KEY"
    [] t = "public_key"  -> "ENVIRONMENT_VARIABLE_TYPE_PUBLIC_KEY"
    [] OTHER             -> "ENVIRONMENT_VARIABLE_TYPE_VAR"

\* switch env.Type { case "variable": ... default: ..._UNSPECIFIED }
EnvironmentVariableType(t) ==
  CASE t = "variable"    -> "ENVIRONMENT_VARIABLE_TYPE_VAR"
    [] t = "secret"      -> "ENVIRONMENT_VARIABLE_TYPE_SECRET"
    [] t = "certificate" -> "ENVIRONMENT_VARIABLE_TYPE_CERTIFICATE"
    [] t = "private_key" -> "ENVIRONMENT_VARIABLE_TYPE_PRIVATE_KEY"
    [] t = "public_key"  -> "ENVIRONMENT_VARIABLE_TYPE_PUBLIC_KEY"
    [] OTHER             -> "ENVIRONMENT_VARIABLE_TYPE_UNSPECIFIED"

\* environment := []*appv1.EnvironmentVariable{}; if v.EnvironmentVariables !=
\* nil { for _, env := range ... { environment = append(environment, ...) } }
RECURSIVE AppendEnvironment(_, _)
AppendEnvironment(environment, rest) ==
  IF rest = <<>> THEN environment
  ELSE LET env == Head(rest)
       IN  AppendEnvironment(Append(environment,
                                    [Key   |-> env.Name,
                                     Value |-> env.Value,
                                     Type  |-> EnvironmentVariableType(env.Type)]),
                             Tail(rest))

Environment(envs) == IF envs.nil THEN <<>> ELSE AppendEnvironment(<<>>, envs.vars)

\* The values of a structpb.Struct and its keys; values are written as text.
PropertyKeys == {"k1", "k2"}
StructValues ==
  {[kind |-> "string_value", v |-> "x"], [kind |-> "number_value", v |-> "1"],
   [kind |-> "bool_value", v |-> "true"], [kind |-> "null_value", v |-> "null"]}
NilStruct == [nil |-> TRUE, fields |-> <<>>]
Structs ==
  {NilStruct} \cup
  {[nil |-> FALSE, fields |-> f] : f \in UNION {[ks -> StructValues] : ks \in SUBSET PropertyKeys}}

\* (*structpb.Value).AsInterface: the Go value of a protobuf value.
AsInterface(val) ==
  CASE val.kind = "null_value"   -> [go |-> "nil", v |-> val.v]
    [] val.kind = "number_value" -> [go |-> "float64", v |-> val.v]
    [] val.kind = "string_value" -> [go |-> "string", v |-> val.v]
    [] val.kind = "bool_value"   -> [go |-> "bool", v |-> val.v]

\* (*structpb.Struct).AsMap: an empty map for a nil Struct.
AsMap(props) == [k \in DOMAIN props.fields |-> AsInterface(props.fields[k])]

\* structpb.NewValue, as structpb.NewStruct(*v.Input) applies it to each value.
NewValue(val) ==
  CASE val.go = "nil"     -> [kind |-> "null_value", v |-> val.v]
    [] val.go = "float64" -> [kind |-> "number_value", v |-> val.v]
    [] val.go = "string"  -> [kind |-> "string_value", v |-> val.v]
    [] val.go = "bool"    -> [kind |-> "bool_value", v |-> val.v]

\* appv1.LinkType and (LinkType).String(): the name of the enum value.
LinkTypes == 0..2
LinkTypeNames ==
  <<"LINK_TYPE_UNSPECIFIED", "LINK_TYPE_DOCUMENTATION", "LINK_TYPE_ADMINISTRATION",
    "LINK_TYPE_SUPPORT", "LINK_TYPE_ENDPOINT", "LINK_TYPE_EXTERNAL">>
LinkTypeString(t) == LinkTypeNames[t + 1]

\* The links and Resources an App returns.
AppLinks == [Url : {"u1", "u2"}, Title : {"t1"}, Type : LinkTypes]
AppResources ==
  [Type : {"t1", "t2"}, ExternalId : {"", "e1"}, DisplayName : {"", "d1"},
   Properties : Structs, Links : SeqsUpTo(AppLinks, MaxLinks)]

\* Mutant: the title and the URL of a link change places.
LinksItem_Swapped(link) ==
  [Title |-> link.Url, Url |-> link.Title, Type |-> LinkTypeString(link.Type)]

\* appapi.LinksItem{Title: link.Title, Url: link.Url,
\*                  Type: appapi.LinksItemType(link.Type.String())}
LinksItem(link) ==
  [Title |-> link.Title, Url |-> link.Url, Type |-> LinkTypeString(link.Type)]

\* items := make([]appapi.LinksItem, 0, len(links)); for _, link := range links
\* { items = append(items, ...) }
RECURSIVE AppendItems(_, _)
AppendItems(items, links) ==
  IF links = <<>> THEN items
  ELSE AppendItems(Append(items, LinksItem(Head(links))), Tail(links))

\* The appapi.Resource built from the Resource of an App response.
Resource(r) ==
  [Type        |-> r.Type,
   ExternalId  |-> r.ExternalId,
   DisplayName |-> r.DisplayName,
   Properties  |-> AsMap(r.Properties),
   Links       |-> AppendItems(<<>>, r.Links)]

\* &appv1.Resource{Type: *v.Resource.Type, ExternalId: v.Resource.ExternalId}:
\* the appv1.Resource of a request, its other fields left at their zero values.
RequestResource(res) ==
  [Type        |-> res.Type,
   ExternalId  |-> res.ExternalId,
   DisplayName |-> "",
   Properties  |-> NilStruct,
   Links       |-> <<>>]

\* The Resources of the ListResources responses: with and without external
\* ID, without links and with the most.
ListedResources ==
  {r \in AppResources :
     /\ r.DisplayName = "d1"
     /\ r.Properties = [nil |-> FALSE, fields |-> [k \in {"k1"} |-> [kind |-> "string_value", v |-> "x"]]]
     /\ \/ r.Links = <<>>
        \/ /\ Len(r.Links) = MaxLinks
           /\ \A i \in 1..Len(r.Links) : r.Links[i] = [Url |-> "u1", Title |-> "t1", Type |-> i % 3]}
Cursors == {"", "c1", "c2"}
ListCalls ==
  [task : [Type : {"t1", "t2"}, Next : Cursors],
   reply : [Resources : SeqsUpTo(ListedResources, MaxResources), Next : Cursors]]

\* &appv1.ListResourcesRequest{Resource: &appv1.Resource{Type: *v.Resource.Type},
\*                             Next: v.Next, Metadata: metadata}
ListResourcesRequest(task) == [Resource |-> [Type |-> task.Type], Next |-> task.Next]

\* resources := make([]appapi.Resource, len(res.Msg.Resources));
\* for i, r := range res.Msg.Resources { resources[i] = appapi.Resource{...} }
Resources(rs) == [i \in 1..Len(rs) |-> Resource(rs[i])]

\* Mutant: the response repeats no cursor.
ListResourcesResponse_NoCursor(reply) ==
  [ResponseType |-> "list_resources", Next |-> "", Resources |-> Resources(reply.Resources)]

\* appapi.ListResourcesResponse{Next: res.Msg.Next, Resources: resources,
\*                              ResponseType: "list_resources"}
ListResourcesResponse(reply) ==
  [ResponseType |-> "list_resources",
   Next         |-> reply.Next,
   Resources    |-> Resources(reply.Resources)]

\* The environment of an ExecuteResourceOperation request is built.
TranslateEnvironment ==
  /\ fpc = "call"
  /\ fn = "environment"
  /\ out' = Environment(arg)
  /\ fpc' = "return"
  /\ UNCHANGED <<fn, arg, back>>
  /\ UNCHANGED <<pollVars, startVars, healthVars, serveVars>>

\* The Resource of an App response is put into the control plane's shape.
TranslateResource ==
  /\ fpc = "call"
  /\ fn = "resource"
  /\ out' = Resource(arg)
  /\ fpc' = "return"
  /\ UNCHANGED <<fn, arg, back>>
  /\ UNCHANGED <<pollVars, startVars, healthVars, serveVars>>

\* A Resource of the control plane's shape is put into a request to the App.
TranslateBack ==
  /\ fpc = "return"
  /\ fn = "resource"
  /\ back' = RequestResource(out)
  /\ fpc' = "back"
  /\ UNCHANGED <<fn, arg, out>>
  /\ UNCHANGED <<pollVars, startVars, healthVars, serveVars>>

\* The ListResources request is built from the task and sent.
ListRequest ==
  /\ fpc = "call"
  /\ fn = "list"
  /\ out' = ListResourcesRequest(arg.task)
  /\ fpc' = "rpc"
  /\ UNCHANGED <<fn, arg, back>>
  /\ UNCHANGED <<pollVars, startVars, healthVars, serveVars>>

\* The RPC succeeded: the response is built, merged and, unless the merge
\* failed, reported with appapi.ReportResponseStatusOk.
ListReport ==
  \E merged \in BOOLEAN :
    /\ fpc = "rpc"
    /\ fn = "list"
    /\ IF merged
         THEN /\ back' = [Status |-> "ok", Response |-> ListResourcesResponse(arg.reply)]
              /\ fpc' = "reported"
         ELSE /\ fpc' = "dropped"
              /\ UNCHANGED back
    /\ UNCHANGED <<fn, arg, out>>
    /\ UNCHANGED <<pollVars, startVars, healthVars, serveVars>>

Translate ==
  \/ TranslateEnvironment
  \/ TranslateResource
  \/ TranslateBack
  \/ ListRequest
  \/ ListReport

\* One translation is followed, for an input of the bounded sets.
InitTranslate ==
  /\ fpc = "call"
  /\ \/ fn = "environment" /\ arg \in TaskEnvironments
     \/ fn = "resource" /\ arg \in AppResources
     \/ fn = "list" /\ arg \in ListCalls
  /\ out = <<>>
  /\ back = <<>>
  /\ OthersIdle

(***************************************************************************)
(* The configuration file: WriteConfig and ReadConfig.  A YAML document is *)
(* the sequence of its key/value pairs.                                    *)
(***************************************************************************)
\* type AppVersion struct { Path, Version string }
AppVersions == [Path : {"", "apps/x"}, Version : Versions]

\* TempestConfig.Apps: a nil map or a map from app IDs to version lists.
NilApps == [nil |-> TRUE, m |-> <<>>]
AppsMaps ==
  {NilApps} \cup
  {[nil |-> FALSE, m |-> f] :
     f \in UNION {[ids -> SeqsUpTo(AppVersions, MaxVersions)] : ids \in SUBSET AppIDs}}

\* type TempestConfig struct { Version string; Apps map[...]; BuildDir string }
TempestConfigs == [Version : {"", "v1", "v2"}, Apps : AppsMaps, BuildDir : {"", "build"}]

\* The order in which the encoder writes the keys of a map: sorted.
SortedKeys == <<"a", "b">>

\* An AppVersion as the encoder writes it: path, then version.
EncodeAppVersion(av) == << <<"path", av.Path>>, <<"version", av.Version>> >>

\* The Apps map as the encoder writes it: one pair per app ID, the IDs sorted,
\* each with its list in order; a nil map is written as the empty mapping.
EncodeApps(apps) ==
  LET ids == SelectSeq(SortedKeys, LAMBDA id : id \in DOMAIN apps.m)
  IN  [i \in 1..Len(ids) |->
         <<ids[i], [j \in 1..Len(apps.m[ids[i]]) |-> EncodeAppVersion(apps.m[ids[i]][j])]>>]

\* Mutant: the encoder leaves the build directory out.
EncodeConfig_WithoutBuildDir(c) ==
  << <<"version", c.Version>>, <<"apps", EncodeApps(c.Apps)>> >>

\* encoder.Encode(cfg): the fields in their order, under their yaml names.
EncodeConfig(c) ==
  << <<"version", c.Version>>,
     <<"apps", EncodeApps(c.Apps)>>,
     <<"build_dir", c.BuildDir>> >>

\* The value a document gives a key, or the zero value of the field.
ValueOf(doc, key, zero) ==
  IF \E i \in 1..Len(doc) : doc[i][1] = key
    THEN doc[CHOOSE i \in 1..Len(doc) : doc[i][1] = key][2]
    ELSE zero

DecodeAppVersion(doc) ==
  [Path |-> ValueOf(doc, "path", ""), Version |-> ValueOf(doc, "version", "")]

\* A mapping decoded into the Apps map: the map is made, one list per key.
DecodeApps(doc) ==
  [nil |-> FALSE,
   m   |-> [id \in {doc[i][1] : i \in 1..Len(doc)} |->
              LET list == ValueOf(doc, id, <<>>)
              IN  [j \in 1..Len(list) |-> DecodeAppVersion(list[j])]]]

\* decoder.Decode(&cfg) into the zero TempestConfig.
DecodeConfig(doc) ==
  [Version  |-> ValueOf(doc, "version", ""),
   Apps     |-> IF \E i \in 1..Len(doc) : doc[i][1] = "apps"
                  THEN DecodeApps(ValueOf(doc, "apps", <<>>))
                  ELSE NilApps,
   BuildDir |-> ValueOf(doc, "build_dir", "")]

\* if cfg.Version == "" { cfg.Version = "v1" }
DefaultVersion(c) == IF c.Version = "" THEN [c EXCEPT !.Version = "v1"] ELSE c

\* WriteConfig(cfg, dir): cfg.Version is set through the pointer, then the
\* config is encoded into dir/tempest.yaml.
WriteConfig ==
  /\ fpc = "call"
  /\ fn = "WriteConfig"
  /\ arg' = DefaultVersion(arg)
  /\ out' = EncodeConfig(DefaultVersion(arg))
  /\ fpc' = "written"
  /\ UNCHANGED <<fn, back>>
  /\ UNCHANGED <<pollVars, startVars, healthVars, serveVars>>

\* ReadConfig() in the directory of the file: decode, then default the version.
ReadConfig ==
  /\ \/ fpc = "written"
     \/ fpc = "call" /\ fn = "ReadConfig"
  /\ back' = DefaultVersion(DecodeConfig(out))
  /\ fpc' = "read"
  /\ UNCHANGED <<fn, arg, out>>
  /\ UNCHANGED <<pollVars, startVars, healthVars, serveVars>>

Config ==
  \/ WriteConfig
  \/ ReadConfig

\* Either a configuration is about to be written, or a file that was written
\* by hand, its version possibly empty or absent, is about to be read.
InitConfig ==
  /\ fpc = "call"
  /\ \/ fn = "WriteConfig" /\ arg \in TempestConfigs /\ out = <<>>
     \/ /\ fn = "ReadConfig"
        /\ arg = <<>>
        /\ \E c \in TempestConfigs : out = EncodeConfig(c) \/ out = Tail(EncodeConfig(c))
  /\ back = <<>>
  /\ OthersIdle

(***************************************************************************)
(* Messages: pluralize and FormatShowingSummary.  A string is the sequence *)
(* of its characters.                                                      *)
(***************************************************************************)
\* The characters of the words: one plain letter and those of the suffixes.
Letters == {"a", "s", "h", "c", "x", "z"}
Words == SeqsUpTo(Letters, MaxWord)
\* The item nouns of the summaries.
ItemTypes == SeqsUpTo({"a", "x"}, MaxWord)
\* The counts: negative, zero, one, several, and one of two digits.
Counts == -1..MaxCount

\* strings.HasSuffix(word, suffix)
HasSuffix(word, suffix) ==
  /\ Len(word) >= Len(suffix)
  /\ SubSeq(word, Len(word) - Len(suffix) + 1, Len(word)) = suffix

\* suffixes := []string{"s", "sh", "ch", "x", "z"}
suffixes == << <<"s">>, <<"s", "h">>, <<"c", "h">>, <<"x">>, <<"z">> >>

\* Mutant: a count of zero is taken for the singular as well.
pluralize_ZeroSingular(word, count) ==
  IF count = 1 \/ count = 0 THEN word
  ELSE IF \E i \in 1..Len(suffixes) : HasSuffix(word, suffixes[i])
    THEN word \o <<"e", "s">>
    ELSE word \o <<"s">>

\* if count == 1 { return word }; for _, suffix := range suffixes { if
\* strings.HasSuffix(word, suffix) { return word + "es" } }; return word + "s"
pluralize(word, count) ==
  IF count = 1 THEN word
  ELSE IF \E i \in 1..Len(suffixes) : HasSuffix(word, suffixes[i])
    THEN word \o <<"e", "s">>
    ELSE word \o <<"s">>

\* The decimal digits, and %d of fmt.Sprintf.
DigitChars == <<"0", "1", "2", "3", "4", "5", "6", "7", "8", "9">>

RECURSIVE Digits(_)
Digits(n) == IF n < 10 THEN <<DigitChars[n + 1]>>
             ELSE Digits(n \div 10) \o <<DigitChars[(n % 10) + 1]>>

FormatInt(n) == IF n < 0 THEN <<"-">> \o Digits(0 - n) ELSE Digits(n)

\* Mutant: the limited summary prints the total before the item count.
FormatShowingSummary_TotalFirst(itemCount, totalFetched, pageCount, itemType, hasLimit) ==
  IF hasLimit
    THEN <<"S", "h", "o", "w", "i", "n", "g", " ">> \o FormatInt(totalFetched) \o <<"/">>
           \o FormatInt(itemCount) \o <<" ">> \o pluralize(itemType, itemCount)
    ELSE <<"S", "h", "o", "w", "i", "n", "g", " ">> \o FormatInt(itemCount) \o <<" ">>
           \o pluralize(itemType, itemCount) \o <<" ", "f", "r", "o", "m", " ">>
           \o FormatInt(pageCount) \o <<" ">> \o pluralize(<<"p", "a", "g", "e">>, pageCount)

\* fmt.Sprintf("Showing %d/%d %s", ...) / fmt.Sprintf("Showing %d %s from %d %s", ...)
FormatShowingSummary(itemCount, totalFetched, pageCount, itemType, hasLimit) ==
  IF hasLimit
    THEN <<"S", "h", "o", "w", "i", "n", "g", " ">> \o FormatInt(itemCount) \o <<"/">>
           \o FormatInt(totalFetched) \o <<" ">> \o pluralize(itemType, itemCount)
    ELSE <<"S", "h", "o", "w", "i", "n", "g", " ">> \o FormatInt(itemCount) \o <<" ">>
           \o pluralize(itemType, itemCount) \o <<" ", "f", "r", "o", "m", " ">>
           \o FormatInt(pageCount) \o <<" ">> \o pluralize(<<"p", "a", "g", "e">>, pageCount)

\* A call of pluralize returns.
CallPluralize ==
  /\ fpc = "call"
  /\ fn = "pluralize"
  /\ out' = pluralize(arg.word, arg.count)
  /\ fpc' = "return"
  /\ UNCHANGED <<fn, arg, back>>
  /\ UNCHANGED <<pollVars, startVars, healthVars, serveVars>>

\* A call of FormatShowingSummary returns.
CallFormatShowingSummary ==
  /\ fpc = "call"
  /\ fn = "FormatShowingSummary"
  /\ out' = FormatShowingSummary(arg.itemCount, arg.totalFetched, arg.pageCount,
                                 arg.itemType, arg.hasLimit)
  /\ fpc' = "return"
  /\ UNCHANGED <<fn, arg, back>>
  /\ UNCHANGED <<pollVars, startVars, healthVars, serveVars>>

Messages ==
  \/ CallPluralize
  \/ CallFormatShowingSummary

\* One of the two functions is called with arguments of the bounded sets.
InitMessages ==
  /\ fpc = "call"
  /\ \/ /\ fn = "pluralize"
        /\ arg \in [word : Words, count : Counts]
     \/ /\ fn = "FormatShowingSummary"
        /\ arg \in [itemCount : Counts, totalFetched : Counts, pageCount : Counts,
                     itemType : ItemTypes, hasLimit : BOOLEAN]
  /\ out = <<>>
  /\ back = <<>>
  /\ OthersIdle

\* No translation or formatting function is being followed.
FnIdle == fpc = "idle" /\ fn = "none" /\ arg = <<>> /\ out = <<>> /\ back = <<>>

Init == InitPoll /\ script = <<>> /\ StartDone /\ HealthIdle /\ ServeWaiting /\ FnIdle

Next == startPolling

Spec == Init /\ [][Next]_vars

InitStartApps == InitStart /\ PollIdle /\ HealthIdle /\ ServeStarting /\ FnIdle

SpecStart == InitStartApps /\ [][StartApps]_vars

InitHealthCheck == InitHealth /\ PollIdle /\ StartDone /\ ServeWaiting /\ FnIdle

SpecHealth == InitHealthCheck /\ [][startHealthCheck]_vars

InitServe ==
  /\ InitStart /\ cfg \in ServeConfigs
  /\ InitPoll /\ script = ServeScript
  /\ InitHealth /\ catalogue \in ServeCatalogues
  /\ ServeStarting
  /\ FnIdle

SpecServe == InitServe /\ [][serveRunE]_vars

\* The fetch responses of testable property 6: a transport error, a 204, a 200
\* with a malformed task, a 200 with a valid task.
ResilienceScript == <<"transport-error", "204", "malformed", "valid">>

InitScript ==
  InitPoll /\ script = ResilienceScript /\ StartDone /\ HealthIdle /\ ServeWaiting
    /\ FnIdle

SpecScript == InitScript /\ [][Next]_vars

SpecMessages == InitMessages /\ [][Messages]_vars

SpecTranslate == InitTranslate /\ [][Translate]_vars

SpecConfig == InitConfig /\ [][Config]_vars

(***************************************************************************)
(* Claims about the poll loop.                                             *)
(***************************************************************************)
StepOrder == <<"Fetch", "Decode", "Dispatch", "Report">>

IsPrefix(s, t) == Len(s) <= Len(t) /\ \A i \in 1..Len(s) : s[i] = t[i]

\* The App RPC invocations and the report submissions made for task t.
RpcsOf(t) == SelectSeq(rpcLog, LAMBDA r : r.task = t)
ReportsOf(t) == SelectSeq(reportLog, LAMBDA r : r.task = t)

\* C1: within one poll loop the steps Fetch, Decode, Dispatch, Report of a task
\* happen in that order, the loop never has more than one call outstanding, and
\* no Fetch is outstanding while a task is being dispatched or reported.
C1_StrictlySequential ==
  /\ Cardinality(calls) <= 1
  /\ IsPrefix(steps, StepOrder)
  /\ ("fetch" \in calls => pc = "fetching" /\ steps = <<"Fetch">>)
  /\ (pc \in {"executing", "listing", "reportingOk", "reportingError"}
        => "fetch" \notin calls /\ Cardinality(calls) = 1)

\* C1 witness: a second task went through all four steps after the first.
C1_Witness ==
  fetches = 2 /\ steps = StepOrder /\ pc = "reportingOk" /\ Len(rpcLog) = 2

\* C2: the poll loop never terminates on its own: no outcome of an iteration
\* leaves the loop dead, every one leaves it on its way to another Fetch.
C2_NeverTerminates == pc # "crashed"

C4_RpcErrorReported ==
  err # "" =>
    /\ pc \in {"reportingError", "sleeping", "loop"}
    /\ ReportsOf(nextTask.taskId)
         = <<[task |-> nextTask.taskId, status |-> "error", message |-> err]>>
    /\ Len(RpcsOf(nextTask.taskId)) = 1

\* C4 witness: the error report of a failed ListResources was submitted and the
\* loop is back at its head.
C4_Witness ==
  /\ err = "deadline exceeded" /\ pc = "loop" /\ outcome = "rpc_error"
  /\ nextTask.body.kind = "list"

\* C5: every fetched task causes at most one App RPC and at most one report
\* submission attempt over the whole run (so never both an ok and an error
\* report), also when the submission fails; calls are made for the task of the
\* running iteration only.
C5_ConsumedOnce ==
  /\ \A t \in 1..fetches : Len(RpcsOf(t)) <= 1 /\ Len(ReportsOf(t)) <= 1
  /\ \A i \in DOMAIN rpcLog : rpcLog[i].task \in 1..fetches
  /\ \A i \in DOMAIN reportLog : Len(RpcsOf(reportLog[i].task)) = 1
  /\ \A i, j \in DOMAIN rpcLog : i < j => rpcLog[i].task < rpcLog[j].task

\* C5 witness: the submission of a success report failed, the loop slept and is
\* back at its head with one attempt made for that task.
C5_Witness ==
  /\ fetches = 2 /\ pc = "loop" /\ outcome = "report_error"
  /\ Len(ReportsOf(2)) = 1 /\ Len(ReportsOf(1)) = 1

\* C6: a fetch that ends in a transport error or a status other than 200 causes
\* no App RPC and no report, leaves the token alone and puts the loop to sleep;
\* the sleep lasts one polling interval of 5 s and is followed by a Fetch.
C6_NonOKSleepsAndRetries ==
  /\ [][(pc = "fetching" /\ pc' # "decode")
          => /\ pc' = "sleeping"
             /\ calls' = {}
             /\ rpcLog' = rpcLog /\ reportLog' = reportLog
             /\ token' = token]_vars
  /\ [][pc = "sleeping"
          => /\ pc' = "loop"
             /\ clock' = clock + 5
             /\ rpcLog' = rpcLog /\ reportLog' = reportLog
             /\ token' = token]_vars
  /\ [][pc = "loop" => pc' = "fetching" /\ calls' = {"fetch"} /\ token' = token]_vars
  /\ [](outcome \in {"transport_error", "non200"} /\ pc \in {"sleeping", "loop"}
          => RpcsOf(fetches) = <<>> /\ ReportsOf(fetches) = <<>>)

\* C6 witness: after a non-200 response and one sleep the next Fetch is in flight.
C6_Witness ==
  outcome = "non200" /\ pc = "fetching" /\ fetches = 2 /\ clock = 5

\* C7: a fetched ExecuteResourceAction task causes no App RPC and no report,
\* and the loop goes straight back to Fetch.
C7_ActionNoEffect ==
  (nextTask # NoTask /\ nextTask.body.kind = "action") =>
    /\ pc \in {"decode", "dispatch", "loop"}
    /\ calls = {}
    /\ RpcsOf(nextTask.taskId) = <<>>
    /\ ReportsOf(nextTask.taskId) = <<>>
    /\ (pc = "loop" => outcome = "unimplemented")

\* C7 witness: an action task was taken and dropped, the loop is at its head.
C7_Witness ==
  /\ nextTask # NoTask /\ nextTask.body.kind = "action"
  /\ pc = "loop" /\ outcome = "unimplemented"

\* The remote operations the poll loop translates.
RemoteOperations == {"create", "update", "delete", "read"}

\* C15: each remote operation in {create, update, delete, read} is translated to
\* its own local RPC operation (CREATE, UPDATE, DELETE, READ), which is the one
\* the App request carries; for any other operation value the iteration ends in
\* an error for the task and no App RPC is invoked.
C15_OperationTranslation ==
  /\ \A o1, o2 \in RemoteOperations :
       ResourceOperation(o1) = ResourceOperation(o2) => o1 = o2
  /\ request.rpc = "ExecuteResourceOperation" =>
       /\ nextTask.body.kind = "operation"
       /\ request.Operation =
            CASE nextTask.body.operation = "create" -> "RESOURCE_OPERATION_CREATE"
              [] nextTask.body.operation = "update" -> "RESOURCE_OPERATION_UPDATE"
              [] nextTask.body.operation = "delete" -> "RESOURCE_OPERATION_DELETE"
              [] nextTask.body.operation = "read"   -> "RESOURCE_OPERATION_READ"
              [] OTHER                              -> "none"
  /\ (nextTask # NoTask /\ nextTask.body.kind = "operation"
        /\ nextTask.body.operation \notin RemoteOperations) =>
       /\ RpcsOf(nextTask.taskId) = <<>>
       /\ request = NoRequest
       /\ pc \in {"decode", "dispatch", "sleeping", "loop", "crashed"}
       /\ (pc \in {"sleeping", "loop"} => outcome = "prepare_failure")

\* C15 witness: after an operation task was translated and handed to the App, a
\* task with an operation outside the four has ended in the error.
C15_Witness ==
  /\ nextTask # NoTask /\ nextTask.body.kind = "operation"
  /\ nextTask.body.operation \notin RemoteOperations /\ nextTask.body.input = "ok"
  /\ pc = "sleeping" /\ outcome = "prepare_failure"
  /\ Len(rpcLog) = 1 /\ rpcLog[1].rpc = "ExecuteResourceOperation"

(***************************************************************************)
(* Claims about the reachability probe of createRunner.                    *)
(***************************************************************************)
\* C8: a probe that succeeds within the attempt bound yields a Runner and no
\* error, in particular one that fails exactly 4 times and then succeeds: the
\* probe gives up only after more than 4 failed attempts.
C8_ProbeSucceedsWithinBound ==
  /\ (lastProbe = "ok"
        => /\ spc \in {"range", "returned"}
           /\ ret \in {"pending", "ok"}
           /\ runners # <<>>
           /\ runners[Len(runners)].Client
                = "http://localhost:" \o port \o "/" \o runners[Len(runners)].Path)
  /\ (ret = "probe error" => attempts > 4)

\* C8 witness: Describe failed 4 times, succeeded at the fifth attempt, and
\* createRunner returned the Runner.
C8_Witness ==
  /\ lastProbe = "ok" /\ attempts = 5 /\ Len(waits) = 4
  /\ spc = "range" /\ Len(runners) = 1

\* C9 as stated: when the probe keeps failing, createRunner returns the error
\* after exactly 5 Describe attempts.
C9_ErrorAfterFiveAttempts == ret = "probe error" => attempts = 5

\* C9 as amended: when the probe keeps failing, createRunner returns the error
\* after exactly 6 Describe attempts (the first one and 5 retries), and the wait
\* between two consecutive attempts is always 1 second.
C9_ErrorAfterSixAttempts ==
  /\ \A i \in DOMAIN waits : waits[i] = 1
  /\ (spc = "describe" => Len(waits) = attempts)
  /\ (spc = "backoff" => Len(waits) = attempts)
  /\ (ret = "probe error" => attempts = 6 /\ waits = <<1, 1, 1, 1, 1>>)

\* C9 witness: a reachable endpoint kept failing and the probe gave up.
C9_Witness ==
  /\ ret = "probe error" /\ spc = "failed" /\ ValidPort(port)
  /\ attempts = 6 /\ Len(waits) = 5

(***************************************************************************)
(* Claims about the health check loop.                                     *)
(***************************************************************************)
\* C10: the health check loop performs one pass at start-up, before any tick,
\* and after that one pass on every tick: the k-th periodic pass starts when
\* the loop has received its k-th tick.
C10_PassOnEveryTick == \A k \in DOMAIN passes : passes[k] = k - 1

\* The types of the catalogue flagged as supporting health checks, in order.
FlaggedTypes(types) ==
  LET sel == SelectSeq(types, LAMBDA t : t.HealthcheckSupported)
  IN  [i \in 1..Len(sel) |-> sel[i].Type]

\* performHealthCheck has returned and the loop waits for its next pass.
PassOver == hpc \in {"range", "receive", "perform"} /\ passErr # "none"

\* C11: in one health pass HealthCheck is invoked once for every resource type
\* flagged as supporting health checks, in catalogue order, and never for a type
\* that is not flagged: the invocations of a running pass are a prefix of the
\* flagged types, and those of a pass that returned nil are all of them.
C11_HealthRpcPerFlaggedType ==
  /\ IsPrefix(healthLog, FlaggedTypes(des.types))
  /\ (PassOver /\ passErr = "nil" => healthLog = FlaggedTypes(des.types))

\* C11 witness: a pass over a catalogue of two flagged types around an unflagged
\* one has returned nil.
C11_Witness ==
  /\ PassOver /\ passErr = "nil"
  /\ Len(des.types) = 3 /\ ~des.types[2].HealthcheckSupported
  /\ healthLog = <<"t1", "t3">>

\* The report items of the first i answers of the running pass.
RECURSIVE ItemsUpTo(_)
ItemsUpTo(i) ==
  IF i = 0 THEN <<>>
  ELSE IF answers[i] = "UNSPECIFIED" THEN ItemsUpTo(i - 1)
  ELSE Append(ItemsUpTo(i - 1),
              [Type |-> healthLog[i], Status |-> appStatusToTempestStatus(answers[i])])

\* C12: in a health pass where every health RPC and every submission succeeds
\* there is one ReportHealth submission per health-supporting type, and the i-th
\* submission carries the items of all types processed so far whose status is
\* not unspecified, so earlier items are sent again with later ones.
C12_IncrementalBatches ==
  /\ \A i \in DOMAIN postLog : i <= Len(answers) /\ postLog[i] = ItemsUpTo(i)
  /\ (PassOver /\ passErr = "nil" => Len(postLog) = Len(FlaggedTypes(des.types)))

\* C12 witness: a pass of three submissions has returned nil, the third
\* submission repeating the item of the first.
C12_Witness ==
  /\ PassOver /\ passErr = "nil"
  /\ Len(postLog) = 3
  /\ Len(postLog[1]) = 1 /\ Len(postLog[3]) >= 2 /\ postLog[3][1] = postLog[1][1]

\* C13: a failed HealthCheck RPC or a failed ReportHealth submission ends the
\* pass at that point with the error logged: no health RPC and no submission
\* follows until the next pass, nothing is retried, and the loop goes on to wait
\* for the tick of its next pass, which starts from empty reports.
C13_FailedPassAbandoned ==
  /\ [][(hpc = "healthcheck" /\ hpc' # hpc /\ hpc' # "posting") =>
          (hpc' = "range" /\ passErr' = "health check error"
             /\ healthLog' = healthLog /\ postLog' = postLog)]_vars
  /\ [][(hpc = "posting" /\ hpc' # hpc /\ hpc' # "types") =>
          (hpc' = "range" /\ passErr' = "post health reports error"
             /\ healthLog' = healthLog /\ postLog' = postLog)]_vars
  /\ [][(hpc = "range" \/ hpc = "receive") =>
          (healthLog' = healthLog /\ postLog' = postLog
             /\ hpc' \in {"range", "receive", "perform"})]_vars
  /\ [][(hpc = "perform" /\ hpc' = "types") =>
          (reports' = <<>> /\ healthLog' = <<>> /\ postLog' = <<>> /\ hidx' = 1)]_vars

\* C13 witness: a pass is running after an earlier pass ended in an error.
C13_Witness ==
  /\ hpc = "healthcheck"
  /\ passErr \in {"health check error", "post health reports error"}
  /\ Len(passes) >= 2

\* C14: HEALTHY, DEGRADED and DISRUPTED translate to healthy, degraded and
\* disrupted, every other status to "unknown"; in a pass an answer of status
\* UNSPECIFIED leaves no report item and every other answer leaves exactly the
\* item of its type with the translated status.
C14_StatusTranslation ==
  /\ \A i \in DOMAIN answers :
       LET items == SelectSeq(reports, LAMBDA r : r.Type = healthLog[i])
       IN  CASE answers[i] = "UNSPECIFIED" -> items = <<>>
             [] answers[i] = "HEALTHY"     -> items = <<[Type |-> healthLog[i], Status |-> "healthy"]>>
             [] answers[i] = "DEGRADED"    -> items = <<[Type |-> healthLog[i], Status |-> "degraded"]>>
             [] answers[i] = "DISRUPTED"   -> items = <<[Type |-> healthLog[i], Status |-> "disrupted"]>>
             [] OTHER                      -> items = <<[Type |-> healthLog[i], Status |-> "unknown"]>>
  /\ Len(reports) <= Len(answers)

\* C14 witness: a pass has had an unspecified answer, a healthy one and one
\* outside the named statuses.
C14_Witness ==
  /\ Len(answers) = 3
  /\ \E i, j, k \in DOMAIN answers :
       answers[i] = "UNSPECIFIED" /\ answers[j] = "HEALTHY" /\ answers[k] = "OTHER"
  /\ Len(reports) = 2

(***************************************************************************)
(* Claims about the Runners and the serve run.                             *)
(***************************************************************************)
\* How many Runners there are for a pair, and how many entries the
\* configuration has for it.
RunnersFor(id, ver) ==
  Cardinality({i \in DOMAIN runners : runners[i].AppID = id /\ runners[i].Version = ver})

EntriesFor(id, ver) == Cardinality({i \in DOMAIN cfg[id] : cfg[id][i] = ver})

\* The errors StartApps returns.
StartErrors ==
  {"stat error", "invalid build directory", "start error", "scan error", "probe error"}

\* C18: StartApps returns an error and no Runners at all, not even those already
\* created for other Apps, whenever the build directory is missing, the build
\* path is not a directory, the subprocess fails to start, stdout closes before
\* a first line, or the reachability probe of one configured App is exhausted.
C18_FailureReturnsNoRunners ==
  /\ (spc = "failed" => runners = <<>> /\ ret \in StartErrors)
  /\ (ret \in StartErrors => spc = "failed")
  /\ (buildDir = "missing" /\ spc # "stat" => ret = "stat error")
  /\ (buildDir = "file" /\ spc # "stat" => ret = "invalid build directory")
  /\ (buildDir = "dir" /\ proc = "none" /\ spc \notin {"stat", "start"}
        => ret = "start error")
  /\ (proc = "running" /\ port = "" /\ spc # "scan" => ret = "scan error")
  /\ (lastProbe = "failed" /\ spc \notin {"describe", "backoff"} => ret = "probe error")

\* C18 witness: the probe of the second of two Apps was exhausted after the
\* Runner of the first had been created; no Runner is returned.
C18_Witness ==
  /\ ret = "probe error" /\ spc = "failed" /\ runners = <<>>
  /\ Len(cfg["a"]) = 1 /\ Len(cfg["b"]) = 1 /\ Len(todo) = 1

\* The lines that are valid integer strings.
IsInteger(line) == line \in {"8080", "9090"}

\* C19 as stated: a first line that is a valid integer is the port of every
\* Runner's endpoint, and with a first line that is not a valid integer
\* StartApps returns an error.
C19_NonIntegerLineFails ==
  /\ \A i \in DOMAIN runners :
       runners[i].Client = "http://localhost:" \o port \o "/" \o runners[i].Path
  /\ (port # "" /\ ~IsInteger(port) /\ spc \in {"returned", "failed"} => ret \in StartErrors)

\* C19 as amended: a first line that is a valid integer is the port of every
\* Runner's endpoint; a first line that is not a valid integer is used as it is,
\* no Runner is created with it, and StartApps returns an error only when the
\* probe of the first configured App is exhausted after 6 Describe attempts;
\* with no configured App StartApps succeeds with no Runners.
C19_PortUsedVerbatim ==
  /\ \A i \in DOMAIN runners :
       /\ IsInteger(port)
       /\ runners[i].Client = "http://localhost:" \o port \o "/" \o runners[i].Path
  /\ (port # "" /\ ~IsInteger(port)) =>
       /\ runners = <<>>
       /\ (spc \in {"returned", "failed"} =>
             IF \E id \in AppIDs : cfg[id] # <<>>
               THEN ret = "probe error" /\ attempts = 6
               ELSE ret = "ok")

\* C19 witness: with a first line that is no integer the probe of the first App
\* was exhausted.
C19_Witness ==
  /\ port = "abc" /\ ret = "probe error" /\ attempts = 6
  /\ runners = <<>> /\ todo # <<>>

\* C16: when StartApps succeeds there is exactly one Runner for each (app ID,
\* version) entry of the configuration and none for any other pair, each Runner
\* carries the path <app ID>-<version>, and the Runners do not change afterwards.
C16_OneRunnerPerEntry ==
  /\ [](ret = "ok" =>
         /\ \A id \in AppIDs, ver \in Versions : RunnersFor(id, ver) = EntriesFor(id, ver)
         /\ \A i \in DOMAIN runners :
              /\ runners[i].AppID \in AppIDs /\ runners[i].Version \in Versions
              /\ runners[i].Path = runners[i].AppID \o "-" \o runners[i].Version)
  /\ [][ret = "ok" => runners' = runners]_vars

\* C16 witness: two versions of an App were started and the loops of a Runner
\* have been at work since.
C16_Witness ==
  /\ ret = "ok" /\ serve = "waiting"
  /\ Len(runners) = 2
  /\ runners[1].Path = "a-v1" /\ runners[2].Path = "a-v2"
  /\ pc = "executing" /\ hpc = "posting"

\* C17: the poll loop and the health check loop of a Runner run concurrently
\* and can each have an RPC outstanding against the Runner's client at the same
\* time; no step of either loop changes the Runner (client, path, app ID,
\* version) or any other state of the start-up, and no step of one loop changes
\* the state of the other.
C17_LoopsShareNothingWritten ==
  /\ [][serve = "waiting" /\ serve' = "waiting" => startVars' = startVars]_vars
  /\ [][pollVars' = pollVars \/ healthVars' = healthVars]_vars

\* C17 witness: an App RPC of the poll loop and a HealthCheck of the health
\* check loop are outstanding against the same client.
C17_Witness ==
  /\ serve = "waiting"
  /\ pc \in {"executing", "listing"} /\ hpc = "healthcheck"
  /\ LoopRunner.Client = "http://localhost:8080/a-v1"

C27_DescribeFailureOnlyLogged == des.nil => hpc # "crashed"

\* The outcomes of an iteration that are a failure or an empty result.
FailureOutcomes ==
  {"transport_error", "non200", "decode_failure", "prepare_failure", "rpc_error",
   "report_error"}

\* The step that ends an iteration of the poll loop.
IterationEnds == pc \notin {"loop", "sleeping", "crashed"} /\ pc' \in {"loop", "sleeping"}

\* C28: an iteration of the poll loop ends in the sleeping state exactly when
\* its outcome is a failure or an empty result, the sleep lasts one polling
\* interval and is followed by the next Fetch, and an iteration that ends with
\* a delivered success report goes to the next Fetch without a sleep.
C28_SleepIffFailure ==
  [][ /\ (IterationEnds => (pc' = "sleeping" <=> outcome' \in FailureOutcomes))
      /\ (IterationEnds /\ outcome' = "report_ok" => (pc' = "loop" /\ sleeps' = sleeps))
      /\ (pc = "sleeping" /\ pc' # pc =>
            (pc' = "loop" /\ sleeps' = sleeps + 1 /\ clock' = clock + pollingInterval))
      /\ (sleeps' # sleeps => pc = "sleeping")
      /\ (pc' = "fetching" /\ pc # pc' => pc = "loop")
    ]_vars

\* Both cases have happened in one run: a failed iteration has slept and the
\* iteration after it has gone to its Fetch straight from a delivered report.
C28_Witness ==
  /\ pc = "fetching"
  /\ fetches = 3
  /\ outcome = "report_ok"
  /\ sleeps = 1
  /\ clock = pollingInterval

\* C29: an operation task that fails before the App RPC (input not
\* convertible, operation unsupported) or whose response cannot be built after
\* the RPC gets no report, ok or error: nothing is submitted for it when the
\* iteration ends, and every report ever submitted is for the task of the
\* iteration in progress, so nothing is submitted for it later either.
C29_DroppedTaskNeverReported ==
  [][ /\ (IterationEnds /\ outcome' = "prepare_failure" =>
            (/\ pc' = "sleeping" /\ reportLog' = reportLog
             /\ ReportsOf(nextTask.taskId) = <<>>))
      /\ (reportLog' # reportLog =>
            (/\ Len(reportLog') = Len(reportLog) + 1
             /\ reportLog'[Len(reportLog')].task = nextTask.taskId
             /\ nextTask.taskId = fetches
             /\ RpcsOf(nextTask.taskId) # <<>>))
      /\ (fetches' # fetches => fetches' = fetches + 1)
    ]_vars

\* A task whose response could not be built after a successful RPC has been
\* dropped, after a first iteration that made no RPC and no report.
C29_Witness ==
  /\ pc = "sleeping"
  /\ outcome = "prepare_failure"
  /\ fetches = 2
  /\ RpcsOf(2) # <<>>
  /\ RpcsOf(1) = <<>>
  /\ nextTask.body.kind = "operation"
  /\ reportLog = <<>>
  /\ sleeps = 1

\* C30: when start-up fails after the subprocess was started (no first stdout
\* line, or the reachability probe exhausted), the caller gets a nil cancel
\* function and the start-up has not killed the subprocess: it is still running
\* and serve never calls a cancel function for it.
C30_FailedStartLeavesSubprocess ==
  spc = "failed" /\ ret \in {"scan error", "probe error"} =>
    /\ cancel = "nil"
    /\ proc = "running"
    /\ cancelCalls = 0
    /\ serve \in {"start", "failed", "dead"}

\* serve has returned the error of a start-up whose probe was exhausted.
C30_Witness ==
  /\ serve = "failed"
  /\ spc = "failed"
  /\ ret = "probe error"
  /\ proc = "running"
  /\ cancel = "nil"

(***************************************************************************)
(* Claims about the messages.                                              *)
(***************************************************************************)
\* Whether a word ends in s, x or z, or in sh or ch.
EndsInSibilant(word) ==
  /\ word # <<>>
  /\ \/ word[Len(word)] \in {"s", "x", "z"}
     \/ Len(word) >= 2 /\ word[Len(word)] = "h" /\ word[Len(word) - 1] \in {"s", "c"}

\* The plural the claims expect of a word.
PluralForm(word) ==
  IF EndsInSibilant(word) THEN word \o <<"e", "s">> ELSE word \o <<"s">>

\* C24: pluralize returns the word unchanged exactly when the count is 1; for
\* every other count, zero and negative ones too, it returns word+"es" when the
\* word ends in s, sh, ch, x or z and word+"s" otherwise.
C24_Pluralize ==
  fpc = "return" /\ fn = "pluralize" =>
    /\ (out = arg.word <=> arg.count = 1)
    /\ (arg.count # 1 => out = PluralForm(arg.word))

\* The plural of a word in sh was asked for a count of zero.
C24_Witness ==
  /\ fpc = "return"
  /\ fn = "pluralize"
  /\ arg = [word |-> <<"s", "h">>, count |-> 0]
  /\ out = <<"s", "h", "e", "s">>

\* strings.Split(s, sep) for a separator of one character.
RECURSIVE Split(_, _)
Split(s, sep) ==
  IF \A i \in 1..Len(s) : s[i] # sep THEN <<s>>
  ELSE LET i == CHOOSE k \in 1..Len(s) : s[k] = sep /\ \A j \in 1..(k - 1) : s[j] # sep
       IN  <<SubSeq(s, 1, i - 1)>> \o Split(SubSeq(s, i + 1, Len(s)), sep)

\* Whether a string is the decimal numeral of n: an optional sign and digits
\* without a leading zero, whose value is n.
RECURSIVE DigitsValue(_)
DigitsValue(ds) ==
  IF ds = <<>> THEN 0
  ELSE 10 * DigitsValue(SubSeq(ds, 1, Len(ds) - 1))
       + ((CHOOSE d \in 1..10 : DigitChars[d] = ds[Len(ds)]) - 1)

IsNumeralOf(str, n) ==
  LET ds == IF str # <<>> /\ str[1] = "-" THEN Tail(str) ELSE str
  IN  /\ ds # <<>>
      /\ \A i \in 1..Len(ds) : \E d \in 1..10 : DigitChars[d] = ds[i]
      /\ (Len(ds) > 1 => ds[1] # "0")
      /\ ((str[1] = "-") <=> n < 0)
      /\ DigitsValue(ds) = (IF n < 0 THEN 0 - n ELSE n)

\* The noun the claims expect for a count.
NounFor(word, count) == IF count = 1 THEN word ELSE PluralForm(word)

\* C25: FormatShowingSummary returns "Showing <itemCount>/<totalFetched>
\* <items>" when hasLimit is true and "Showing <itemCount> <items> from
\* <pageCount> <pages>" when it is false, the item noun pluralized by itemCount
\* and the word page by pageCount, singular only for a count of 1.
C25_FormatShowingSummary ==
  fpc = "return" /\ fn = "FormatShowingSummary" =>
    LET f == Split(out, " ")
    IN  IF arg.hasLimit
          THEN /\ Len(f) = 3
               /\ f[1] = <<"S", "h", "o", "w", "i", "n", "g">>
               /\ LET c == Split(f[2], "/")
                  IN  /\ Len(c) = 2
                      /\ IsNumeralOf(c[1], arg.itemCount)
                      /\ IsNumeralOf(c[2], arg.totalFetched)
               /\ f[3] = NounFor(arg.itemType, arg.itemCount)
          ELSE /\ Len(f) = 6
               /\ f[1] = <<"S", "h", "o", "w", "i", "n", "g">>
               /\ IsNumeralOf(f[2], arg.itemCount)
               /\ f[3] = NounFor(arg.itemType, arg.itemCount)
               /\ f[4] = <<"f", "r", "o", "m">>
               /\ IsNumeralOf(f[5], arg.pageCount)
               /\ f[6] = IF arg.pageCount = 1 THEN <<"p", "a", "g", "e">>
                         ELSE <<"p", "a", "g", "e", "s">>

\* "Showing 1/10 ax" has been returned: a limit, a single item, two digits.
C25_Witness ==
  /\ fpc = "return"
  /\ fn = "FormatShowingSummary"
  /\ arg.hasLimit
  /\ arg.itemCount = 1
  /\ arg.totalFetched = 10
  /\ arg.itemType = <<"a", "x">>
  /\ out = <<"S", "h", "o", "w", "i", "n", "g", " ", "1", "/", "1", "0", " ", "a", "x">>

(***************************************************************************)
(* Claims about the translations of startPolling.                          *)
(***************************************************************************)
\* The kinds the control plane names and the App's kind for each.
KnownKinds ==
  {<<"variable", "ENVIRONMENT_VARIABLE_TYPE_VAR">>,
   <<"secret", "ENVIRONMENT_VARIABLE_TYPE_SECRET">>,
   <<"certificate", "ENVIRONMENT_VARIABLE_TYPE_CERTIFICATE">>,
   <<"private_key", "ENVIRONMENT_VARIABLE_TYPE_PRIVATE_KEY">>,
   <<"public_key", "ENVIRONMENT_VARIABLE_TYPE_PUBLIC_KEY">>}

\* C21: the environment variables of a task reach the App in the same number
\* and order with key and value unchanged; each of the five known kinds maps to
\* its own App kind and any other kind string maps to UNSPECIFIED, the
\* variable still passed on.
C21_EnvironmentPassedOn ==
  fpc = "return" /\ fn = "environment" =>
    /\ Len(out) = Len(arg.vars)
    /\ \A i \in 1..Len(arg.vars) :
         /\ out[i].Key = arg.vars[i].Name
         /\ out[i].Value = arg.vars[i].Value
         /\ IF \E k \in KnownKinds : k[1] = arg.vars[i].Type
              THEN <<arg.vars[i].Type, out[i].Type>> \in KnownKinds
              ELSE out[i].Type = "ENVIRONMENT_VARIABLE_TYPE_UNSPECIFIED"

\* A variable of an unknown kind has been passed on between two known ones.
C21_Witness ==
  /\ fpc = "return"
  /\ fn = "environment"
  /\ Len(arg.vars) = 2
  /\ arg.vars[1].Type = "token"
  /\ arg.vars[2].Type = "private_key"
  /\ arg.vars[1].Name # arg.vars[2].Name
  /\ out[1] = [Key |-> arg.vars[1].Name, Value |-> arg.vars[1].Value,
               Type |-> "ENVIRONMENT_VARIABLE_TYPE_UNSPECIFIED"]

\* The enum value a link type name stands for.
LinkTypeOfName(name) == CHOOSE t \in 0..(Len(LinkTypeNames) - 1) : LinkTypeNames[t + 1] = name

\* Resource c of the control plane's shape has the type, external ID, display
\* name, property keys and values, and links (title, URL, type, in order) of
\* the App's Resource r.
NothingLost(c, r) ==
  /\ c.Type = r.Type
  /\ c.ExternalId = r.ExternalId
  /\ c.DisplayName = r.DisplayName
  /\ DOMAIN c.Properties = DOMAIN r.Properties.fields
  /\ \A k \in DOMAIN c.Properties : NewValue(c.Properties[k]) = r.Properties.fields[k]
  /\ Len(c.Links) = Len(r.Links)
  /\ \A i \in 1..Len(r.Links) :
       /\ c.Links[i].Title = r.Links[i].Title
       /\ c.Links[i].Url = r.Links[i].Url
       /\ c.Links[i].Type \in {LinkTypeNames[t] : t \in 1..Len(LinkTypeNames)}
       /\ LinkTypeOfName(c.Links[i].Type) = r.Links[i].Type

\* The case of the claim: non-empty properties and two links.
WithPropertiesAndTwoLinks(r) ==
  ~r.Properties.nil /\ DOMAIN r.Properties.fields # {} /\ Len(r.Links) = 2

\* C22 as stated: a Resource with non-empty properties and two links comes
\* back from the control plane's shape with its type, external ID, display
\* name, properties and links.
C22_RoundTripLossless ==
  fpc = "back" /\ fn = "resource" /\ WithPropertiesAndTwoLinks(arg) => back = arg

\* C22, amended: a Resource with non-empty properties and two links is put
\* into the control plane's shape without loss of type, external ID, display
\* name, property keys and values, or link title, URL and type, the links in
\* their order; the translation towards the App, that of a task's Resource
\* into a request, carries the type and the external ID only.
C22_TranslationLossless ==
  fn = "resource" /\ WithPropertiesAndTwoLinks(arg) =>
    /\ (fpc \in {"return", "back"} => NothingLost(out, arg))
    /\ (fpc = "back" =>
          /\ back.Type = arg.Type
          /\ back.ExternalId = arg.ExternalId
          /\ back.DisplayName = ""
          /\ back.Properties.nil
          /\ back.Links = <<>>)

\* A Resource with two properties, a display name and two different links
\* has gone to the control plane's shape and into a request.
C22_Witness ==
  /\ fpc = "back"
  /\ fn = "resource"
  /\ DOMAIN arg.Properties.fields = PropertyKeys
  /\ arg.Properties.fields["k1"].kind = "number_value"
  /\ arg.DisplayName = "d1"
  /\ arg.ExternalId = "e1"
  /\ Len(arg.Links) = 2
  /\ arg.Links[1].Url # arg.Links[2].Url
  /\ arg.Links[1].Type = 2
  /\ out.Links[1].Type = "LINK_TYPE_ADMINISTRATION"
  /\ back.ExternalId = "e1"

\* C23: after a successful ListResources RPC the report has status ok and
\* response type "list_resources", holds one translated Resource per Resource
\* the App returned, in the same order and each with its type, external ID,
\* display name, properties and links, and carries the App's cursor unchanged;
\* the request sent to the App carried the task's cursor unchanged.
C23_ListReported ==
  fn = "list" =>
    /\ (fpc \in {"rpc", "reported", "dropped"} =>
          (out.Next = arg.task.Next /\ out.Resource.Type = arg.task.Type))
    /\ (fpc = "reported" =>
          /\ back.Status = "ok"
          /\ back.Response.ResponseType = "list_resources"
          /\ back.Response.Next = arg.reply.Next
          /\ Len(back.Response.Resources) = Len(arg.reply.Resources)
          /\ \A i \in 1..Len(arg.reply.Resources) :
               NothingLost(back.Response.Resources[i], arg.reply.Resources[i]))

\* Two different Resources, the second with links, have been reported with a
\* cursor other than the task's.
C23_Witness ==
  /\ fpc = "reported"
  /\ fn = "list"
  /\ arg.task.Next = "c1"
  /\ arg.reply.Next = "c2"
  /\ Len(arg.reply.Resources) = 2
  /\ arg.reply.Resources[1].Type # arg.reply.Resources[2].Type
  /\ arg.reply.Resources[1].Links = <<>>
  /\ Len(back.Response.Resources[2].Links) = MaxLinks

(***************************************************************************)
(* Claims about the configuration file.                                    *)
(***************************************************************************)
\* The same app IDs, and per app the same ordered list of path/version entries.
SameApps(x, y) ==
  /\ DOMAIN x.m = DOMAIN y.m
  /\ \A id \in DOMAIN x.m :
       /\ Len(x.m[id]) = Len(y.m[id])
       /\ \A j \in 1..Len(x.m[id]) :
            (x.m[id][j].Path = y.m[id][j].Path /\ x.m[id][j].Version = y.m[id][j].Version)

\* C26: a configuration written with WriteConfig and read back with
\* ReadConfig in the same directory has the same build directory and the same
\* Apps mapping; WriteConfig replaces an empty version by "v1" and leaves any
\* other, and so does ReadConfig for the version of the file it reads.
C26_ConfigRoundTrip ==
  [][ /\ (fpc = "call" /\ fpc' = "written" =>
            (/\ arg'.Version = (IF arg.Version = "" THEN "v1" ELSE arg.Version)
             /\ ValueOf(out', "version", "") = arg'.Version
             /\ arg'.BuildDir = arg.BuildDir
             /\ SameApps(arg'.Apps, arg.Apps)))
      /\ (fpc = "written" /\ fpc' = "read" =>
            (/\ back'.BuildDir = arg.BuildDir
             /\ SameApps(back'.Apps, arg.Apps)
             /\ back'.Version = arg.Version))
      /\ (fpc' = "read" /\ fpc # fpc' =>
            back'.Version = (IF ValueOf(out, "version", "") = "" THEN "v1"
                             ELSE ValueOf(out, "version", "")))
    ]_vars

\* A configuration without a version, with two apps, one of them with two
\* entries, has been written and read back.
C26_Witness ==
  /\ fpc = "read"
  /\ fn = "WriteConfig"
  /\ back.Version = "v1"
  /\ back.BuildDir = "build"
  /\ DOMAIN back.Apps.m = AppIDs
  /\ Len(back.Apps.m["b"]) = 2
  /\ back.Apps.m["b"][1] # back.Apps.m["b"][2]
  /\ Len(back.Apps.m["a"]) = 1
  /\ out[2][2][1][1] = "a"

====
